---------------------------- MODULE Spec2Model ----------------------------
(***************************************************************************)
(* Model of the retrieval-and-synthesis core of assistant-etudiant-       *)
(* intelligent:                                                            *)
(*   - OllamaModelManager / OllamaRAGEngine  (src/rag_engine_ollama.py)    *)
(*   - EnhancedVectorStore                   (src/src/vector_store.py)     *)
(*   - EnhancedFallbackLLM / ProfessionalRAGEngine (src/src/rag_engine.py) *)
(* Strings are sequences of one-character strings.  Scores and             *)
(* confidences are integers in hundredths (0.9 is 90).                     *)
(***************************************************************************)
EXTENDS Integers, Sequences, FiniteSets, TLC

VARIABLES
    \* ---- OllamaRAGEngine.ask_question_async, one query at a time ----
    pc,          \* position of the query inside ask_question_async
    query,       \* the arguments of the call (question, rerank, model_to_use)
    docs,        \* relevant_docs
    context,     \* the context built by _build_context ("unbound" before)
    fbIdx,       \* position of the loop over self.fallback_models
    rdata,       \* response_data returned by _generate_ollama_response
    response,    \* the OllamaResponse returned to the caller
    calls,       \* the collaborators called by the query so far, in order
    \* ---- EnhancedVectorStore ----
    embed_dim,        \* length of the vectors the embedding provider returns
    ncalls,           \* create / save / load / constructor calls made so far
    index,            \* self.index: the vectors held by the FAISS index
    documents,        \* self.documents
    document_lookup,  \* self.document_lookup
    stats,            \* self.stats
    disk,             \* the four artifacts under store_path
    saved,            \* the store whose complete save the artifacts are
    wpc,              \* position of the running create / save / load call
    wloc,             \* its locals, and the state it started from
    spc,              \* position of the running search_documents call
    sloc,             \* its locals
    \* ---- ProfessionalRAGEngine.ask_question, one call at a time ----
    ppc,         \* "idle", or "done" when a call has returned
    pro,         \* the engine asked, the arguments and the RAGResponse
    \* ---- the legacy package: VectorStore, RAGEngine, SimpleFallbackLLM,
    \*      MetricsService ----
    vector_store,  \* VectorStore.vector_store: None, or the FAISS store
    legacy,        \* the last call made, its arguments and what it returned
    \* ---- OllamaModelManager ----
    manager,     \* base_url, _connection_tested, _available_models
    mcall        \* the last call made and what it returned; the tests so far

ollamaVars == <<pc, query, docs, context, fbIdx, rdata, response, calls>>

storeVars == <<embed_dim, ncalls, index, documents, document_lookup, stats, disk,
               saved, wpc, wloc, spc, sloc>>

proVars == <<ppc, pro>>

legacyVars == <<vector_store, legacy>>

managerVars == <<manager, mcall>>

vars == <<pc, query, docs, context, fbIdx, rdata, response, calls,
          embed_dim, ncalls, index, documents, document_lookup, stats, disk, saved,
          wpc, wloc, spc, sloc, ppc, pro, vector_store, legacy, manager, mcall>>

----------------------------------------------------------------------------
(* Bounds *)

MaxDocs == 4          \* most documents one retrieval returns
MaxTextLen == 2       \* longest short text the generation provider returns
MaxChunks == 2        \* most chunks one create_vector_store call is given
MaxK == 2             \* largest k of a search
MaxCalls == 2         \* most create / save / load / constructor calls of a run

----------------------------------------------------------------------------
(* Strings *)

Whitespace == {" ", "\n"}

UpperToLower == [c \in {"O", "H", "M", "P", "T", "D"} |->
                   CASE c = "O" -> "o" [] c = "H" -> "h" [] c = "M" -> "m"
                     [] c = "P" -> "p" [] c = "T" -> "t" [] c = "D" -> "d"]

\* str.lower()
Lower(s) == [i \in 1..Len(s) |->
               IF s[i] \in DOMAIN UpperToLower THEN UpperToLower[s[i]] ELSE s[i]]

\* `sub in s`
Contains(s, sub) ==
    \E i \in 0..(Len(s) - Len(sub)) :
        \A j \in 1..Len(sub) : s[i + j] = sub[j]

\* len(s.split()): the number of maximal runs of non-whitespace characters
WordCount(s) ==
    Cardinality({i \in 1..Len(s) :
                    /\ s[i] \notin Whitespace
                    /\ (i = 1 \/ s[i - 1] \in Whitespace)})

\* str.strip()
Strip(s) ==
    LET keep == {i \in 1..Len(s) : s[i] \notin Whitespace}
    IN  IF keep = {} THEN <<>>
        ELSE LET lo == CHOOSE i \in keep : \A j \in keep : i <= j
                 hi == CHOOSE i \in keep : \A j \in keep : j <= i
             IN  SubSeq(s, lo, hi)

\* len(s.split('\n'))
LineCount(s) == 1 + Cardinality({i \in 1..Len(s) : s[i] = "\n"})

StartsWithBold(s) == Len(s) >= 2 /\ s[1] = "*" /\ s[2] = "*"

Min(a, b) == IF a <= b THEN a ELSE b

----------------------------------------------------------------------------
(* OllamaRAGEngine: configuration *)

primary_model == "llama2"

fallback_models == <<"mistral", "codellama">>

default_max_sources == 5

\* The keys of precomputed_responses, in the order of the dict literal.
precomputed_keys ==
    << <<"o", "h", "m">>,
       <<"t", "r", "a", "n", "s", "i", "s", "t", "o", "r">>,
       <<"d", "e", "r", "i", "v", "e", "e">>,
       <<"p", "h">> >>

\* The canned answers, each represented by the head of its title line.
precomputed_text ==
    << <<"*", "*", "L", "O", "I">>,
       <<"*", "*", "T", "R", "A", "N", "S", "I", "S", "T", "O", "R">>,
       <<"*", "*", "D", "E", "R", "I", "V", "E", "E", "S">>,
       <<"*", "*", "p", "H">> >>

\* len(quick_response.split()) of the four canned answers
precomputed_tokens == <<66, 50, 55, 46>>

NoMatch == 0

\* A lookup that compares the keys with the question as typed.
PrecomputedMatchMutant(question) ==
    LET hits == {k \in 1..Len(precomputed_keys) :
                    Contains(question, precomputed_keys[k])}
    IN  IF hits = {} THEN NoMatch
        ELSE CHOOSE k \in hits : \A h \in hits : k <= h

\* _get_precomputed_response: the first key, in dict order, that is a
\* substring of question.lower(); NoMatch stands for None.
PrecomputedMatch(question) ==
    LET question_lower == Lower(question)
        hits == {k \in 1..Len(precomputed_keys) :
                    Contains(question_lower, precomputed_keys[k])}
    IN  IF hits = {} THEN NoMatch
        ELSE CHOOSE k \in hits : \A h \in hits : k <= h


----------------------------------------------------------------------------
(* The inputs of a query *)

\* Questions: triggers in both cases, a trigger inside a longer word, two
\* triggers at once, a near miss, the empty question, and a question of
\* several words that matches nothing.
Questions ==
    { <<"O", "h", "m">>,
      <<"a", "l", "p", "H", "a">>,
      <<"p", "h", " ", "o", "h", "m">>,
      <<"T", "r", "a", "n", "s", "i", "s", "t", "o", "r">>,
      <<"d", "e", "r", "i", "v", "e", "e">>,
      <<"o", "h">>,
      <<>>,
      <<"u", " ", "r", " ", "i">> }

\* What the vector store hands back for one hit.  content_ok / meta_ok say
\* whether page_content is a string and metadata a dict; overlap is the
\* number of question words found in the content; words is the number of
\* words of the content.
StoreDocs ==
    { [content_ok |-> TRUE,  meta_ok |-> TRUE,  overlap |-> 0, words |-> 5],
      [content_ok |-> TRUE,  meta_ok |-> TRUE,  overlap |-> 3, words |-> 40],
      [content_ok |-> TRUE,  meta_ok |-> FALSE, overlap |-> 0, words |-> 5],
      [content_ok |-> FALSE, meta_ok |-> TRUE,  overlap |-> 0, words |-> 0] }

StoreResults == UNION {[1..n -> StoreDocs] : n \in 0..MaxDocs}

\* A text long enough for every length threshold of the engine:
\* 101 one-letter words on 101 lines.
LongText == [i \in 1..201 |-> IF i % 2 = 1 THEN "a" ELSE "\n"]

TextChars == {" ", "a"}

\* The texts the generation provider may return.
Texts == UNION {[1..n -> TextChars] : n \in 0..MaxTextLen} \cup {LongText}

\* Outcomes of the HTTP call of generate_response.
HttpOutcomes ==
    {[kind |-> "ok", text |-> t] : t \in Texts}
    \cup {[kind |-> "status_error", text |-> <<>>],
          [kind |-> "exception", text |-> <<>>]}

----------------------------------------------------------------------------
(* OllamaModelManager.generate_response *)

\* A generate_response that reports every call as a success.
GenerateResponseMutant(model, http) ==
    [success |-> TRUE, response |-> http.text, model |-> model,
     tokens |-> WordCount(http.text)]

\* The dict returned: success only on status 200; any exception (a timeout
\* included) is caught and reported as success = False.
GenerateResponse(model, http) ==
    IF http.kind = "ok"
    THEN [success |-> TRUE, response |-> http.text, model |-> model,
          tokens |-> WordCount(http.text)]
    ELSE [success |-> FALSE, response |-> <<>>, model |-> model, tokens |-> 0]

----------------------------------------------------------------------------
(* OllamaRAGEngine: the stages of the pipeline *)

\* _retrieve_documents, lines 397-407: score 1.0 - i * 0.1, index i.
FormatRetrieved(ds) ==
    [n \in 1..Len(ds) |->
        [index |-> n - 1, content_ok |-> ds[n].content_ok,
         meta_ok |-> ds[n].meta_ok, overlap |-> ds[n].overlap,
         words |-> ds[n].words, score |-> 100 - (n - 1) * 10]]

\* list.sort(key = score, reverse = True): stable, descending.
SortByScoreDesc(ds) ==
    LET rank(i) == 1 + Cardinality({j \in 1..Len(ds) :
                        \/ ds[j].score > ds[i].score
                        \/ (ds[j].score = ds[i].score /\ j < i)})
    IN  [p \in 1..Len(ds) |-> ds[CHOOSE i \in 1..Len(ds) : rank(i) = p]]

\* _rerank_documents: boosts the scores in place, one document after the
\* other; content that is not a string raises, and the handler returns the
\* list as it is at that point (boosted up to the failure, not sorted).
RerankDocuments(ds) ==
    LET bad == {i \in 1..Len(ds) : ~ds[i].content_ok}
        firstBad == IF bad = {} THEN Len(ds) + 1
                    ELSE CHOOSE i \in bad : \A j \in bad : i <= j
        boosted == [i \in 1..Len(ds) |->
                       IF i < firstBad
                       THEN [ds[i] EXCEPT !.score = @ + ds[i].overlap * 5]
                       ELSE ds[i]]
    IN  IF bad = {} THEN SortByScoreDesc(boosted) ELSE boosted

\* _build_context reads metadata and content of documents[:3].
BuildContextRaises(ds) ==
    \E i \in 1..Min(3, Len(ds)) : ~ds[i].content_ok \/ ~ds[i].meta_ok

\* The context: one part per document of documents[:3]; "" is no part.
BuildContext(ds) ==
    [bound |-> TRUE,
     parts |-> [i \in 1..Min(3, Len(ds)) |-> ds[i].words]]

UnboundContext == [bound |-> FALSE, parts |-> <<>>]

RECURSIVE SumSeq(_)
SumSeq(s) == IF s = <<>> THEN 0 ELSE Head(s) + SumSeq(Tail(s))

HeadWordsCap == 150

\* Words of context[:300]: each part is "[Source: s]\n" + content; 300
\* characters hold at most 150 words.
ContextHeadWords(ctx) ==
    Min(HeadWordsCap, SumSeq([i \in 1..Len(ctx.parts) |-> 2 + ctx.parts[i]]))

explication_prefix ==
    <<"*", "*", "E", "X", "P", "L", "I", "C", "A", "T", "I", "O", "N",
      "*", "*", "\n", "\n">>

\* _clean_response
CleanResponse(text) ==
    LET r == Strip(text)
    IN  IF ~StartsWithBold(r) /\ Len(r) > 100 /\ LineCount(r) > 2
        THEN explication_prefix \o r
        ELSE r

template_context_text == <<"*", "*", "R", "E", "P", "O", "N", "S", "E">>

template_general_text == <<"*", "*", "A", "S", "S", "I", "S", "T", "A", "N", "T">>

template_context_words == 64

template_general_words == 72

\* A template response that does not say it is a fallback.
GenerateTemplateResponseMutant(question, ctx) ==
    [answer |-> template_general_text, model_used |-> "template",
     tokens |-> template_general_words + WordCount(question),
     fallback_used |-> FALSE]

\* _generate_template_response
GenerateTemplateResponse(question, ctx) ==
    IF ctx.parts # <<>>
    THEN [answer |-> template_context_text, model_used |-> "template",
          tokens |-> template_context_words + WordCount(question)
                       + ContextHeadWords(ctx),
          fallback_used |-> TRUE]
    ELSE [answer |-> template_general_text, model_used |-> "template",
          tokens |-> template_general_words + WordCount(question),
          fallback_used |-> TRUE]

\* The dict built at lines 463-469 (fallback = FALSE) and 481-487 (TRUE).
GeneratedData(resp, model, fallback) ==
    [answer |-> CleanResponse(resp.response), model_used |-> model,
     tokens |-> resp.tokens, fallback_used |-> fallback]

NoData == [answer |-> <<>>, model_used |-> "none", tokens |-> 0,
           fallback_used |-> FALSE]

\* _calculate_confidence, in hundredths
CalculateConfidence(ds, data) ==
    LET base == 50
        withSources == IF ds # <<>> THEN base + Min(30, Len(ds) * 10) ELSE base
        withOllama == IF ~data.fallback_used THEN withSources + 20
                      ELSE withSources
        withTokens == IF data.tokens > 100 THEN withOllama + 10 ELSE withOllama
    IN  Min(100, withTokens)

\* _assess_quality
AssessQuality(data, ds) ==
    IF data.fallback_used THEN "basic"
    ELSE IF ds # <<>> /\ data.tokens > 150 THEN "high"
    ELSE IF ds # <<>> THEN "good"
    ELSE "fair"

\* _format_sources reads content and metadata of every document.
FormatSourcesRaises(ds) ==
    \E i \in 1..Len(ds) : ~ds[i].content_ok \/ ~ds[i].meta_ok

FormatSources(ds) ==
    [i \in 1..Len(ds) |-> [index |-> ds[i].index, score |-> ds[i].score]]

----------------------------------------------------------------------------
(* OllamaRAGEngine: the responses *)

NoResponse ==
    [answer |-> <<>>, confidence |-> 0, sources |-> <<>>,
     model_used |-> "none", tokens_generated |-> 0, source_scores |-> <<>>,
     quality_assessment |-> "none", fallback_used |-> FALSE]

\* lines 311-324
PrecomputedResponse(k) ==
    [answer |-> precomputed_text[k], confidence |-> 90, sources |-> <<>>,
     model_used |-> "precomputed", tokens_generated |-> precomputed_tokens[k],
     source_scores |-> <<>>, quality_assessment |-> "high",
     fallback_used |-> FALSE]

error_fallback_text == <<"*", "*", "M", "O", "D", "E">>

error_fallback_words == 72

\* _generate_error_fallback
ErrorFallback(question) ==
    [answer |-> error_fallback_text, confidence |-> 30, sources |-> <<>>,
     model_used |-> "error_fallback",
     tokens_generated |-> error_fallback_words + WordCount(question),
     source_scores |-> <<>>, quality_assessment |-> "basic",
     fallback_used |-> TRUE]

\* lines 338-361
FinalResponse(ds, data) ==
    [answer |-> data.answer, confidence |-> CalculateConfidence(ds, data),
     sources |-> FormatSources(ds), model_used |-> data.model_used,
     tokens_generated |-> data.tokens,
     source_scores |-> [i \in 1..Len(ds) |-> ds[i].score],
     quality_assessment |-> AssessQuality(data, ds),
     fallback_used |-> data.fallback_used]

\* One entry of the record of calls: the collaborator, the model asked (for
\* a generation call) and whether the call reported success.
Call(op, arg, ok) == [op |-> op, arg |-> arg, ok |-> ok]

----------------------------------------------------------------------------
(* OllamaRAGEngine.ask_question_async, stage by stage *)

NoQuery == [question |-> <<>>, rerank |-> FALSE, model |-> "none",
            sources_count |-> 0]

InitOllama ==
    /\ pc = "idle"
    /\ query = NoQuery
    /\ docs = <<>>
    /\ context = UnboundContext
    /\ fbIdx = 0
    /\ rdata = NoData
    /\ response = NoResponse
    /\ calls = <<>>

\* Lines 299-324: the call, its defaults and step 1.  A precomputed match
\* returns at once; otherwise the query goes on to retrieval.
Ask(q, model_preference, max_sources, use_reranking) ==
    /\ UNCHANGED storeVars
    /\ UNCHANGED proVars
    /\ UNCHANGED <<legacyVars, managerVars>>
    /\ pc = "idle"
    /\ ppc = "idle"
    /\ query' = [question |-> q,
                 rerank |-> use_reranking,
                 model |-> IF model_preference # "" THEN model_preference
                           ELSE primary_model,
                 sources_count |-> IF max_sources # 0 THEN max_sources
                                   ELSE default_max_sources]
    /\ docs' = <<>>
    /\ context' = UnboundContext
    /\ fbIdx' = 0
    /\ rdata' = NoData
    /\ calls' = <<>>
    /\ IF PrecomputedMatch(q) # NoMatch
       THEN /\ response' = PrecomputedResponse(PrecomputedMatch(q))
            /\ pc' = "done"
       ELSE /\ response' = NoResponse
            /\ pc' = "retrieve"

\* _retrieve_documents with a vector store that answers.
RetrieveOk(found) ==
    /\ UNCHANGED storeVars
    /\ UNCHANGED proVars
    /\ UNCHANGED <<legacyVars, managerVars>>
    /\ pc = "retrieve"
    /\ Len(found) <= query.sources_count
    /\ \A i \in 1..Len(found) : found[i].overlap <= WordCount(query.question)
    /\ docs' = FormatRetrieved(found)
    /\ calls' = Append(calls, Call("search", "", TRUE))
    /\ pc' = "rerank"
    /\ UNCHANGED <<query, context, fbIdx, rdata, response>>

\* _retrieve_documents with a store whose search raises (a store without
\* search_similar_async included): the handler returns [].
RetrieveRaises ==
    /\ UNCHANGED storeVars
    /\ UNCHANGED proVars
    /\ UNCHANGED <<legacyVars, managerVars>>
    /\ pc = "retrieve"
    /\ docs' = <<>>
    /\ calls' = Append(calls, Call("search", "", FALSE))
    /\ pc' = "rerank"
    /\ UNCHANGED <<query, context, fbIdx, rdata, response>>

\* _retrieve_documents without a vector store: [] and no search.
RetrieveNoStore ==
    /\ UNCHANGED storeVars
    /\ UNCHANGED proVars
    /\ UNCHANGED <<legacyVars, managerVars>>
    /\ pc = "retrieve"
    /\ docs' = <<>>
    /\ pc' = "rerank"
    /\ UNCHANGED <<query, context, fbIdx, rdata, response, calls>>

\* Lines 329-331
Rerank ==
    /\ UNCHANGED storeVars
    /\ UNCHANGED proVars
    /\ UNCHANGED <<legacyVars, managerVars>>
    /\ pc = "rerank"
    /\ IF query.rerank /\ docs # <<>>
       THEN /\ docs' = RerankDocuments(docs)
            /\ calls' = Append(calls, Call("rerank", "", TRUE))
       ELSE UNCHANGED <<docs, calls>>
    /\ pc' = "generate"
    /\ UNCHANGED <<query, context, fbIdx, rdata, response>>

\* _generate_ollama_response, lines 445-447 and 494-496, when _build_context
\* raises: the handler reads `context`, which is not bound yet, so the
\* UnboundLocalError leaves _generate_ollama_response and is caught at
\* lines 363-366.
GenerateContextRaises ==
    /\ UNCHANGED storeVars
    /\ UNCHANGED proVars
    /\ UNCHANGED <<legacyVars, managerVars>>
    /\ pc = "generate"
    /\ BuildContextRaises(docs)
    /\ pc' = "except"
    /\ UNCHANGED <<query, docs, context, fbIdx, rdata, response, calls>>

\* A first call that goes on to the fallback models after a success.
GeneratePrimaryMutant(http) ==
    /\ UNCHANGED storeVars
    /\ UNCHANGED proVars
    /\ UNCHANGED <<legacyVars, managerVars>>
    /\ pc = "generate"
    /\ ~BuildContextRaises(docs)
    /\ context' = BuildContext(docs)
    /\ calls' = Append(calls, Call("generate", query.model, http.kind = "ok"))
    /\ rdata' = GeneratedData(GenerateResponse(query.model, http),
                              query.model, FALSE)
    /\ pc' = "fallback"
    /\ fbIdx' = 1
    /\ UNCHANGED <<query, docs, response>>

\* _generate_ollama_response, lines 445-470: context, prompt and the call of
\* the requested model.
GeneratePrimary(http) ==
    /\ UNCHANGED storeVars
    /\ UNCHANGED proVars
    /\ UNCHANGED <<legacyVars, managerVars>>
    /\ pc = "generate"
    /\ ~BuildContextRaises(docs)
    /\ context' = BuildContext(docs)
    /\ calls' = Append(calls, Call("generate", query.model, http.kind = "ok"))
    /\ LET resp == GenerateResponse(query.model, http)
       IN  IF resp.success
           THEN /\ rdata' = GeneratedData(resp, query.model, FALSE)
                /\ pc' = "finish"
                /\ fbIdx' = fbIdx
           ELSE /\ rdata' = rdata
                /\ pc' = "fallback"
                /\ fbIdx' = 1
    /\ UNCHANGED <<query, docs, response>>

\* Lines 472-489: one turn of the loop over self.fallback_models.
GenerateFallback(http) ==
    /\ UNCHANGED storeVars
    /\ UNCHANGED proVars
    /\ UNCHANGED <<legacyVars, managerVars>>
    /\ pc = "fallback"
    /\ fbIdx <= Len(fallback_models)
    /\ calls' = Append(calls, Call("generate", fallback_models[fbIdx],
                                    http.kind = "ok"))
    /\ LET resp == GenerateResponse(fallback_models[fbIdx], http)
       IN  IF resp.success
           THEN /\ rdata' = GeneratedData(resp, fallback_models[fbIdx], TRUE)
                /\ pc' = "finish"
                /\ fbIdx' = fbIdx
           ELSE /\ rdata' = rdata
                /\ pc' = "fallback"
                /\ fbIdx' = fbIdx + 1
    /\ UNCHANGED <<query, docs, context, response>>

\* Lines 491-492: every model failed.
GenerateTemplate ==
    /\ UNCHANGED storeVars
    /\ UNCHANGED proVars
    /\ UNCHANGED <<legacyVars, managerVars>>
    /\ pc = "fallback"
    /\ fbIdx > Len(fallback_models)
    /\ rdata' = GenerateTemplateResponse(query.question, context)
    /\ calls' = Append(calls, Call("template", "", TRUE))
    /\ pc' = "finish"
    /\ UNCHANGED <<query, docs, context, fbIdx, response>>

\* Lines 338-361: confidence, quality, sources and the response; an
\* exception of _format_sources goes to the handler of line 363.
Finish ==
    /\ UNCHANGED storeVars
    /\ UNCHANGED proVars
    /\ UNCHANGED <<legacyVars, managerVars>>
    /\ pc = "finish"
    /\ IF FormatSourcesRaises(docs)
       THEN /\ pc' = "except"
            /\ response' = response
       ELSE /\ pc' = "done"
            /\ response' = FinalResponse(docs, rdata)
    /\ UNCHANGED <<query, docs, context, fbIdx, rdata, calls>>

\* A handler that lets the exception go on to the caller.
HandleExceptionMutant ==
    /\ UNCHANGED storeVars
    /\ UNCHANGED proVars
    /\ UNCHANGED <<legacyVars, managerVars>>
    /\ pc = "except"
    /\ pc' = "raised"
    /\ UNCHANGED <<query, docs, context, fbIdx, rdata, response, calls>>

\* Lines 363-366: the handler of ask_question_async returns
\* _generate_error_fallback.
HandleException ==
    /\ UNCHANGED storeVars
    /\ UNCHANGED proVars
    /\ UNCHANGED <<legacyVars, managerVars>>
    /\ pc = "except"
    /\ response' = ErrorFallback(query.question)
    /\ pc' = "done"
    /\ UNCHANGED <<query, docs, context, fbIdx, rdata, calls>>

\* The return of ask_question_async: the response goes to the caller and
\* nothing of the query stays behind in the engine.
Return ==
    /\ UNCHANGED storeVars
    /\ UNCHANGED proVars
    /\ UNCHANGED <<legacyVars, managerVars>>
    /\ pc = "done"
    /\ pc' = "idle"
    /\ query' = NoQuery
    /\ docs' = <<>>
    /\ context' = UnboundContext
    /\ fbIdx' = 0
    /\ rdata' = NoData
    /\ response' = NoResponse
    /\ calls' = <<>>

ModelPreferences == {"", "mistral"}

MaxSourcesArgs == {0, 2}

----------------------------------------------------------------------------
(* EnhancedVectorStore: chunks, embeddings, the FAISS index *)

\* The configured dimension of the index (a constructor parameter).
dimension == 2

\* Document chunks: page_content and the subject of the metadata.
Chunks ==
    { [page_content |-> "ohm", subject |-> "Physics"],
      [page_content |-> "derivative", subject |-> "Math"] }

QueryTexts == {"ohm", "other"}

\* The embedding provider on the texts of the model: the first `dimension`
\* components tell the texts apart; a provider of another dimension
\* returns longer vectors.
EmbedBase(text) ==
    CASE text = "ohm" -> <<1, 0>>
      [] text = "derivative" -> <<0, 1>>
      [] text = "newton" -> <<1, 1>>
      [] text = "thevenin" -> <<2, 1>>
      [] OTHER -> <<0, 0>>

Embed(text, dim) ==
    [i \in 1..dim |-> IF i <= 2 THEN EmbedBase(text)[i] ELSE 0]

\* The squared L2 distance of IndexFlatL2 and np.dot.
RECURSIVE SumTo(_, _)
SumTo(f, n) == IF n = 0 THEN 0 ELSE f[n] + SumTo(f, n - 1)

L2(u, v) == SumTo([i \in 1..Len(u) |-> (u[i] - v[i]) * (u[i] - v[i])], Len(u))

Dot(u, v) == SumTo([i \in 1..Len(u) |-> u[i] * v[i]], Len(u))

\* faiss index.add / index.search refuse vectors of another dimension.
IndexRefuses(vec) == Len(vec) # dimension

\* index.search(q, n) of a flat index: the ids (0-based) of the n nearest
\* vectors by ascending distance, the smaller id first among equals, padded
\* with -1 when the index holds fewer than n vectors; distances in
\* hundredths.
IndexSearch(idx, q, n) ==
    LET rank(i) == 1 + Cardinality({j \in 1..Len(idx) :
                        \/ L2(q, idx[j]) < L2(q, idx[i])
                        \/ (L2(q, idx[j]) = L2(q, idx[i]) /\ j < i)})
    IN  [p \in 1..n |->
            IF p <= Len(idx)
            THEN LET i == CHOOSE i \in 1..Len(idx) : rank(i) = p
                 IN  [id |-> i - 1, distance |-> 100 * L2(q, idx[i])]
            ELSE [id |-> -1, distance |-> -1]]

\* search_documents, lines 152-156: the hits whose id is a position of
\* self.documents, each with the document at that position.
ResolveHits(hits, documents_) ==
    LET valid == {p \in 1..Len(hits) :
                     hits[p].id >= 0 /\ hits[p].id < Len(documents_)}
        nth(m) == CHOOSE p \in valid :
                     Cardinality({r \in valid : r < p}) = m - 1
    IN  [m \in 1..Cardinality(valid) |->
            [doc |-> documents_[hits[nth(m)].id + 1],
             score |-> hits[nth(m)].distance]]

\* sorted(reranked, key = score, reverse = True): stable, descending.
SortResultsDesc(rs) ==
    LET rank(i) == 1 + Cardinality({j \in 1..Len(rs) :
                        \/ rs[j].score > rs[i].score
                        \/ (rs[j].score = rs[i].score /\ j < i)})
    IN  [p \in 1..Len(rs) |-> rs[CHOOSE i \in 1..Len(rs) : rank(i) = p]]

\* _rerank_results: combined = (dot(query, doc) + (1 - score)) / 2, in
\* hundredths; sorted by combined score, highest first.  When an embedding
\* call of lines 175-181 raises, the handler of lines 193-195 returns the
\* results it was given.
RerankResults(q_text, results, dim, raises) ==
    LET q == Embed(q_text, dim)
        reranked == [i \in 1..Len(results) |->
            [doc |-> results[i].doc,
             score |-> (100 * Dot(q, Embed(results[i].doc.page_content, dim))
                        + (100 - results[i].score)) \div 2]]
    IN  IF raises THEN results ELSE SortResultsDesc(reranked)

\* A slice [:k] that cuts nothing.
FirstKMutant(rs, k) == rs

\* results[:k]
FirstK(rs, k) == SubSeq(rs, 1, Min(k, Len(rs)))

\* search_documents as a function of the index and the documents it reads.
SearchResults(idx, documents_, q_text, k, use_reranking, dim, raises) ==
    LET q == Embed(q_text, dim)
    IN  IF IndexRefuses(q) THEN <<>>
        ELSE LET hits == IndexSearch(idx, q, IF use_reranking THEN k * 2 ELSE k)
                 results == ResolveHits(hits, documents_)
             IN  IF use_reranking
                 THEN FirstK(RerankResults(q_text, results, dim, raises), k)
                 ELSE results

----------------------------------------------------------------------------
(* EnhancedVectorStore: state *)

\* __init__, lines 48-62
EmptyLookup == [keys |-> "int", entries |-> {}]

InitialStats == [total_vectors |-> 0, total_documents |-> 0]

Missing(empty) == [exists |-> FALSE, data |-> empty]

Present(data) == [exists |-> TRUE, data |-> data]

EmptyDisk ==
    [index |-> Missing(<<>>), documents |-> Missing(<<>>),
     lookup |-> Missing(EmptyLookup), stats |-> Missing(InitialStats)]

\* What a search can observe of the store.
Snapshot(idx, documents_) == [index |-> idx, documents |-> documents_]

\* The in-memory state a create / load call may replace.
Memory == [index |-> index, documents |-> documents,
           document_lookup |-> document_lookup, stats |-> stats]

NoWriter == [op |-> "none", input |-> <<>>, embeddings_list |-> <<>>,
             ret |-> FALSE,
             pre |-> [index |-> <<>>, documents |-> <<>>,
                      document_lookup |-> EmptyLookup, stats |-> InitialStats]]

NoSearch == [q |-> "", k |-> 0, use_reranking |-> FALSE, hits |-> <<>>,
             seen_index |-> <<>>, seen_documents |-> <<>>, results |-> <<>>,
             rerank_raised |-> FALSE, snapshots |-> {}]

\* The store (vectors and documents) a save put on disk when all four of
\* its writes completed; a save that fails part-way leaves artifacts that
\* are the complete save of no store.
NoSaved == [complete |-> FALSE, index |-> <<>>, documents |-> <<>>]

\* The artifacts an earlier process left under store_path: those of a
\* store built from one chunk and saved.
EarlierChunk == [page_content |-> "ohm", subject |-> "Physics"]

EarlierDisk ==
    [index |-> Present(<<Embed(EarlierChunk.page_content, dimension)>>),
     documents |-> Present(<<EarlierChunk>>),
     lookup |-> Present([keys |-> "str", entries |-> {<<0, EarlierChunk>>}]),
     stats |-> Present([total_vectors |-> 1, total_documents |-> 1])]

InitStore ==
    /\ embed_dim \in {dimension, dimension + 1}
    /\ ncalls = 0
    /\ index = <<>>
    /\ documents = <<>>
    /\ document_lookup = EmptyLookup
    /\ stats = InitialStats
    /\ disk \in {EmptyDisk, EarlierDisk}
    /\ saved = IF disk = EarlierDisk
               THEN [complete |-> TRUE, index |-> EarlierDisk.index.data,
                     documents |-> EarlierDisk.documents.data]
               ELSE NoSaved
    /\ wpc = "idle"
    /\ wloc = NoWriter
    /\ spc = "idle"
    /\ sloc = NoSearch

\* One chunk given to create_vector_store, with the outcome of its
\* embed_documents call.
CreateItems == [chunk : Chunks, embed_ok : BOOLEAN]

----------------------------------------------------------------------------
(* EnhancedVectorStore.save_vector_store *)

\* json.dump writes the int keys of document_lookup as strings.
JsonDumpLookup(lookup) == [keys |-> "str", entries |-> lookup.entries]

\* The artifacts after a save that completes `written` of its four writes,
\* in the order of lines 230-244, and fails at the next one (4: no failure).
SaveArtifacts(d, written) ==
    [index |-> IF written >= 1 THEN Present(index) ELSE d.index,
     documents |-> IF written >= 2 THEN Present(documents) ELSE d.documents,
     lookup |-> IF written >= 3 THEN Present(JsonDumpLookup(document_lookup))
                ELSE d.lookup,
     stats |-> IF written >= 4 THEN Present(stats) ELSE d.stats]

SaveWrites == 0..4

\* What the artifacts are the complete save of, after a save of `written`
\* writes.
SavedBy(written) ==
    IF written = 4
    THEN [complete |-> TRUE, index |-> index, documents |-> documents]
    ELSE NoSaved

----------------------------------------------------------------------------
(* EnhancedVectorStore.create_vector_store, step by step *)

\* `exclusive`: the calls of the store run one after the other (TRUE) or
\* a search runs in another thread beside create / load (FALSE).
WriterMayStart(exclusive) ==
    /\ wpc = "idle"
    /\ ncalls < MaxCalls
    /\ exclusive => spc = "idle"

WriterMayStep(exclusive) == exclusive => spc = "idle"

\* The locals of a running search, once the store holds the complete pair
\* (idx, documents_) of the call in progress.
SearchMaySee(idx, documents_) ==
    IF spc = "idle" THEN sloc
    ELSE [sloc EXCEPT !.snapshots = @ \cup {Snapshot(idx, documents_)}]

\* Line 84: self._initialize_index().  The chunk list of the call is drawn
\* chunk by chunk as the loop reaches it; wloc.input is the part read so far.
CreateResetIndex(exclusive) ==
    /\ WriterMayStart(exclusive)
    /\ wloc' = [NoWriter EXCEPT !.op = "create", !.pre = Memory]
    /\ index' = <<>>
    /\ wpc' = "c_reset_docs"
    /\ ncalls' = ncalls + 1
    /\ UNCHANGED ollamaVars
    /\ UNCHANGED proVars
    /\ UNCHANGED <<legacyVars, managerVars>>
    /\ UNCHANGED <<embed_dim, saved, documents, document_lookup, stats, disk, spc, sloc>>

\* Lines 85-86
CreateResetDocuments(exclusive) ==
    /\ wpc = "c_reset_docs"
    /\ WriterMayStep(exclusive)
    /\ documents' = <<>>
    /\ document_lookup' = EmptyLookup
    /\ wpc' = "c_loop"
    /\ UNCHANGED ollamaVars
    /\ UNCHANGED proVars
    /\ UNCHANGED <<legacyVars, managerVars>>
    /\ UNCHANGED <<embed_dim, saved, ncalls, index, stats, disk, wloc, spc, sloc>>

\* A turn of the loop that stores the chunk before it embeds it.
CreateEmbedChunkMutant(exclusive, item) ==
    /\ wpc = "c_loop"
    /\ WriterMayStep(exclusive)
    /\ Len(wloc.input) < MaxChunks
    /\ documents' = Append(documents, item.chunk)
    /\ document_lookup' =
           [document_lookup EXCEPT
               !.entries = @ \cup {<<Len(wloc.input), item.chunk>>}]
    /\ wloc' = [wloc EXCEPT
                   !.input = Append(@, item),
                   !.embeddings_list =
                       IF item.embed_ok
                       THEN Append(@, Embed(item.chunk.page_content, embed_dim))
                       ELSE @]
    /\ UNCHANGED ollamaVars
    /\ UNCHANGED proVars
    /\ UNCHANGED <<legacyVars, managerVars>>
    /\ UNCHANGED <<embed_dim, saved, ncalls, index, stats, disk, wpc, spc, sloc>>

\* Lines 90-107: one turn of the loop, on the next chunk of the list.  The
\* embedding is computed first, so a chunk whose embedding fails is stored
\* nowhere; document_lookup is keyed by the position in the list.
CreateEmbedChunk(exclusive, item) ==
    /\ wpc = "c_loop"
    /\ WriterMayStep(exclusive)
    /\ Len(wloc.input) < MaxChunks
    /\ IF item.embed_ok
       THEN /\ documents' = Append(documents, item.chunk)
            /\ document_lookup' =
                   [document_lookup EXCEPT
                       !.entries = @ \cup {<<Len(wloc.input), item.chunk>>}]
            /\ wloc' = [wloc EXCEPT
                           !.input = Append(@, item),
                           !.embeddings_list =
                               Append(@, Embed(item.chunk.page_content,
                                               embed_dim))]
       ELSE /\ wloc' = [wloc EXCEPT !.input = Append(@, item)]
            /\ UNCHANGED <<documents, document_lookup>>
    /\ UNCHANGED ollamaVars
    /\ UNCHANGED proVars
    /\ UNCHANGED <<legacyVars, managerVars>>
    /\ UNCHANGED <<embed_dim, saved, ncalls, index, stats, disk, wpc, spc, sloc>>

\* A build that reports success although no chunk was embedded.
CreateNoEmbeddingsMutant(exclusive) ==
    /\ wpc = "c_loop"
    /\ WriterMayStep(exclusive)
    /\ wloc.embeddings_list = <<>>
    /\ wloc' = [wloc EXCEPT !.ret = TRUE]
    /\ wpc' = "returned"
    /\ UNCHANGED ollamaVars
    /\ UNCHANGED proVars
    /\ UNCHANGED <<legacyVars, managerVars>>
    /\ UNCHANGED <<embed_dim, saved, ncalls, index, documents, document_lookup, stats, disk,
                   spc, sloc>>

\* Lines 109-111: the list is read and no chunk was embedded.
CreateNoEmbeddings(exclusive) ==
    /\ wpc = "c_loop"
    /\ WriterMayStep(exclusive)
    /\ wloc.embeddings_list = <<>>
    /\ wloc' = [wloc EXCEPT !.ret = FALSE]
    /\ wpc' = "returned"
    /\ UNCHANGED ollamaVars
    /\ UNCHANGED proVars
    /\ UNCHANGED <<legacyVars, managerVars>>
    /\ UNCHANGED <<embed_dim, saved, ncalls, index, documents, document_lookup, stats, disk,
                   spc, sloc>>

\* Lines 113-115 and 131-133: index.add raises on vectors of another
\* dimension and the handler returns False.
CreateAddVectors(exclusive) ==
    /\ wpc = "c_loop"
    /\ WriterMayStep(exclusive)
    /\ wloc.embeddings_list # <<>>
    /\ IF \E n \in 1..Len(wloc.embeddings_list) :
              IndexRefuses(wloc.embeddings_list[n])
       THEN /\ wloc' = [wloc EXCEPT !.ret = FALSE]
            /\ wpc' = "returned"
            /\ index' = index
            /\ sloc' = sloc
       ELSE /\ index' = index \o wloc.embeddings_list
            /\ wpc' = "c_stats"
            /\ wloc' = wloc
            /\ sloc' = SearchMaySee(index \o wloc.embeddings_list, documents)
    /\ UNCHANGED ollamaVars
    /\ UNCHANGED proVars
    /\ UNCHANGED <<legacyVars, managerVars>>
    /\ UNCHANGED <<embed_dim, saved, ncalls, documents, document_lookup, stats, disk, spc>>

\* Lines 117-122
CreateUpdateStats(exclusive) ==
    /\ wpc = "c_stats"
    /\ WriterMayStep(exclusive)
    /\ stats' = [stats EXCEPT !.total_vectors = Len(wloc.embeddings_list),
                              !.total_documents = Len(documents)]
    /\ wpc' = "c_save"
    /\ UNCHANGED ollamaVars
    /\ UNCHANGED proVars
    /\ UNCHANGED <<legacyVars, managerVars>>
    /\ UNCHANGED <<embed_dim, saved, ncalls, index, documents, document_lookup, disk, wloc,
                   spc, sloc>>

\* Lines 126-129: save_vector_store(), its result ignored, then True.
CreateSave(exclusive, written) ==
    /\ wpc = "c_save"
    /\ WriterMayStep(exclusive)
    /\ disk' = SaveArtifacts(disk, written)
    /\ saved' = SavedBy(written)
    /\ wloc' = [wloc EXCEPT !.ret = TRUE]
    /\ wpc' = "returned"
    /\ UNCHANGED ollamaVars
    /\ UNCHANGED proVars
    /\ UNCHANGED <<legacyVars, managerVars>>
    /\ UNCHANGED <<embed_dim, ncalls, index, documents, document_lookup, stats, spc, sloc>>

\* save_vector_store called on its own: True when all four writes succeed.
SaveVectorStore(exclusive, written) ==
    /\ WriterMayStart(exclusive)
    /\ disk' = SaveArtifacts(disk, written)
    /\ saved' = SavedBy(written)
    /\ wloc' = [NoWriter EXCEPT !.op = "save", !.ret = (written = 4),
                                !.pre = Memory]
    /\ wpc' = "returned"
    /\ ncalls' = ncalls + 1
    /\ UNCHANGED ollamaVars
    /\ UNCHANGED proVars
    /\ UNCHANGED <<legacyVars, managerVars>>
    /\ UNCHANGED <<embed_dim, index, documents, document_lookup, stats, spc, sloc>>

----------------------------------------------------------------------------
(* EnhancedVectorStore.load_vector_store, step by step *)

\* json.load returns the keys of lookup.json as strings.
JsonLoadLookup(data) == [keys |-> "str", entries |-> data.entries]

\* Lines 256-262
LoadCheckArtifacts(exclusive) ==
    /\ WriterMayStart(exclusive)
    /\ wloc' = [NoWriter EXCEPT !.op = "load", !.ret = FALSE, !.pre = Memory]
    /\ wpc' = IF /\ disk.index.exists /\ disk.documents.exists
                 /\ disk.lookup.exists /\ disk.stats.exists
              THEN "l_index" ELSE "returned"
    /\ ncalls' = ncalls + 1
    /\ UNCHANGED ollamaVars
    /\ UNCHANGED proVars
    /\ UNCHANGED <<legacyVars, managerVars>>
    /\ UNCHANGED <<embed_dim, saved, index, documents, document_lookup, stats, disk,
                   spc, sloc>>

\* Line 265; a read that raises ends the call at lines 281-283.
LoadIndex(exclusive, read_ok) ==
    /\ wpc = "l_index"
    /\ WriterMayStep(exclusive)
    /\ IF read_ok
       THEN index' = disk.index.data /\ wpc' = "l_documents"
       ELSE index' = index /\ wpc' = "returned"
    /\ UNCHANGED ollamaVars
    /\ UNCHANGED proVars
    /\ UNCHANGED <<legacyVars, managerVars>>
    /\ UNCHANGED <<embed_dim, saved, ncalls, documents, document_lookup, stats, disk, wloc,
                   spc, sloc>>

\* A pickle.load that restores the documents last first.
LoadDocumentsMutant(exclusive, read_ok) ==
    /\ wpc = "l_documents"
    /\ WriterMayStep(exclusive)
    /\ LET data == disk.documents.data
           loaded == [i \in 1..Len(data) |-> data[Len(data) + 1 - i]]
       IN  IF read_ok
           THEN /\ documents' = loaded
                /\ wpc' = "l_lookup"
                /\ sloc' = SearchMaySee(index, loaded)
           ELSE /\ documents' = documents
                /\ wpc' = "returned"
                /\ sloc' = sloc
    /\ UNCHANGED ollamaVars
    /\ UNCHANGED proVars
    /\ UNCHANGED <<legacyVars, managerVars>>
    /\ UNCHANGED <<embed_dim, saved, ncalls, index, document_lookup, stats, disk, wloc,
                   spc>>

\* Lines 268-269
LoadDocuments(exclusive, read_ok) ==
    /\ wpc = "l_documents"
    /\ WriterMayStep(exclusive)
    /\ IF read_ok
       THEN /\ documents' = disk.documents.data
            /\ wpc' = "l_lookup"
            /\ sloc' = SearchMaySee(index, disk.documents.data)
       ELSE /\ documents' = documents
            /\ wpc' = "returned"
            /\ sloc' = sloc
    /\ UNCHANGED ollamaVars
    /\ UNCHANGED proVars
    /\ UNCHANGED <<legacyVars, managerVars>>
    /\ UNCHANGED <<embed_dim, saved, ncalls, index, document_lookup, stats, disk, wloc,
                   spc>>

\* Lines 271-272
LoadLookup(exclusive, read_ok) ==
    /\ wpc = "l_lookup"
    /\ WriterMayStep(exclusive)
    /\ IF read_ok
       THEN document_lookup' = JsonLoadLookup(disk.lookup.data)
            /\ wpc' = "l_stats"
       ELSE document_lookup' = document_lookup /\ wpc' = "returned"
    /\ UNCHANGED ollamaVars
    /\ UNCHANGED proVars
    /\ UNCHANGED <<legacyVars, managerVars>>
    /\ UNCHANGED <<embed_dim, saved, ncalls, index, documents, stats, disk, wloc, spc, sloc>>

\* Lines 275-279
LoadStats(exclusive, read_ok) ==
    /\ wpc = "l_stats"
    /\ WriterMayStep(exclusive)
    /\ IF read_ok
       THEN stats' = disk.stats.data /\ wloc' = [wloc EXCEPT !.ret = TRUE]
       ELSE stats' = stats /\ wloc' = wloc
    /\ wpc' = "returned"
    /\ UNCHANGED ollamaVars
    /\ UNCHANGED proVars
    /\ UNCHANGED <<legacyVars, managerVars>>
    /\ UNCHANGED <<embed_dim, saved, ncalls, index, documents, document_lookup, disk, spc, sloc>>

\* The call returns to its caller.  A search running beside it may from now
\* on see the state the call leaves.
WriterReturn ==
    /\ wpc = "returned"
    /\ wpc' = "idle"
    /\ wloc' = NoWriter
    /\ sloc' = SearchMaySee(index, documents)
    /\ UNCHANGED ollamaVars
    /\ UNCHANGED proVars
    /\ UNCHANGED <<legacyVars, managerVars>>
    /\ UNCHANGED <<embed_dim, saved, ncalls, index, documents, document_lookup, stats, disk, spc>>

\* A new EnhancedVectorStore on the same store_path (lines 48-62).
Construct(exclusive) ==
    /\ WriterMayStart(exclusive)
    /\ spc = "idle"
    /\ Memory # [index |-> <<>>, documents |-> <<>>,
                 document_lookup |-> EmptyLookup, stats |-> InitialStats]
    /\ index' = <<>>
    /\ documents' = <<>>
    /\ document_lookup' = EmptyLookup
    /\ stats' = InitialStats
    /\ ncalls' = ncalls + 1
    /\ UNCHANGED ollamaVars
    /\ UNCHANGED proVars
    /\ UNCHANGED <<legacyVars, managerVars>>
    /\ UNCHANGED <<embed_dim, saved, disk, wpc, wloc, spc, sloc>>

----------------------------------------------------------------------------
(* EnhancedVectorStore.search_documents, in two reads *)

\* Lines 143-150: the query embedding and index.search on self.index.  A
\* query of another dimension raises and the handler returns [].
SearchIndex(exclusive, q, k, use_reranking) ==
    /\ spc = "idle"
    /\ exclusive => wpc = "idle"
    /\ LET qv == Embed(q, embed_dim)
           base == [NoSearch EXCEPT
                      !.q = q, !.k = k, !.use_reranking = use_reranking,
                      !.seen_index = index,
                      !.snapshots =
                          {IF wpc = "idle" THEN Snapshot(index, documents)
                           ELSE Snapshot(wloc.pre.index, wloc.pre.documents)}]
       IN  IF IndexRefuses(qv)
           THEN /\ sloc' = base
                /\ spc' = "done"
           ELSE /\ sloc' = [base EXCEPT
                              !.hits = IndexSearch(index, qv,
                                  IF use_reranking THEN k * 2 ELSE k)]
                /\ spc' = "resolve"
    /\ UNCHANGED ollamaVars
    /\ UNCHANGED proVars
    /\ UNCHANGED <<legacyVars, managerVars>>
    /\ UNCHANGED <<embed_dim, saved, ncalls, index, documents, document_lookup, stats, disk,
                   wpc, wloc>>

\* Lines 152-161: the documents of the hits, read from self.documents, and
\* the reranking, in which an embedding call raises (rerank_raises) or not.
SearchResolve(exclusive, rerank_raises) ==
    /\ spc = "resolve"
    /\ exclusive => wpc = "idle"
    /\ LET results == ResolveHits(sloc.hits, documents)
       IN  sloc' = [sloc EXCEPT
                      !.seen_documents = documents,
                      !.rerank_raised = sloc.use_reranking /\ rerank_raises,
                      !.results =
                          IF sloc.use_reranking
                          THEN FirstK(RerankResults(sloc.q, results, embed_dim,
                                                    rerank_raises), sloc.k)
                          ELSE results]
    /\ spc' = "done"
    /\ UNCHANGED ollamaVars
    /\ UNCHANGED proVars
    /\ UNCHANGED <<legacyVars, managerVars>>
    /\ UNCHANGED <<embed_dim, saved, ncalls, index, documents, document_lookup, stats, disk,
                   wpc, wloc>>

SearchReturn ==
    /\ spc = "done"
    /\ spc' = "idle"
    /\ sloc' = NoSearch
    /\ UNCHANGED ollamaVars
    /\ UNCHANGED proVars
    /\ UNCHANGED <<legacyVars, managerVars>>
    /\ UNCHANGED <<embed_dim, saved, ncalls, index, documents, document_lookup, stats, disk,
                   wpc, wloc>>

----------------------------------------------------------------------------
(* EnhancedFallbackLLM and ProfessionalRAGEngine (src/src/rag_engine.py) *)

\* The keywords of EnhancedFallbackLLM.get_response, in the order of the
\* if / elif chain.
fallback_keywords ==
    << <<"o", "h", "m">>,
       <<"t", "h", "é", "v", "e", "n", "i", "n">>,
       <<"t", "r", "a", "n", "s", "i", "s", "t", "o", "r">>,
       <<"d", "é", "r", "i", "v", "é", "e">> >>

\* The answers of the four keywords, each represented by its first words.
fallback_text ==
    << <<"L", "a", " ", "l", "o", "i">>,
       <<"L", "e", " ", "t", "h", "é", "o", "r", "è", "m", "e">>,
       <<"U", "n", " ", "t", "r", "a", "n", "s", "i", "s", "t", "o", "r">>,
       <<"L", "a", " ", "d", "é", "r", "i", "v", "é", "e">> >>

\* _get_general_response: a fixed text that quotes the query.
fallback_general_text(query_) == <<"J", "e", " ", "p", "e", "u", "x", " ">> \o query_

\* EnhancedFallbackLLM.get_response
FallbackGetResponse(query_) ==
    LET query_lower == Lower(query_)
        hits == {k \in 1..Len(fallback_keywords) :
                    Contains(query_lower, fallback_keywords[k])}
    IN  IF hits = {} THEN fallback_general_text(query_)
        ELSE fallback_text[CHOOSE k \in hits : \A h \in hits : k <= h]

\* The default of the constructor parameter min_confidence, in hundredths.
min_confidence == 30

\* The engines: model_type, use_reranking, and whether _initialize_llm
\* found an LLM.
ProEngines ==
    [model_type : {"auto", "ollama"}, use_reranking : BOOLEAN,
     llm_available : BOOLEAN]

ProQuestions ==
    { <<"T", "h", "é", "v", "e", "n", "i", "n">>,
      <<"t", "r", "a", "n", "s", "i", "s", "t", "o", "r", " ", "o", "h", "m">>,
      <<"D", "é", "r", "i", "v", "é", "e">>,
      <<"d", "e", "r", "i", "v", "e", "e">>,
      <<>> }

\* subject_filter; "" stands for None as well, both are falsy.
SubjectFilters == {"", "PHYSICS", "math"}

\* str.lower() on the subject names of the model.
SubjectLower(subject) ==
    CASE subject \in {"Physics", "PHYSICS", "physics"} -> "physics"
      [] subject \in {"Math", "MATH", "math"} -> "math"
      [] OTHER -> subject

\* The documents search_documents may hand back: the chunks, and a document
\* whose metadata is None.
ProDocs ==
    [page_content : {"ohm"}, subject : {"Physics"}, meta_ok : BOOLEAN]
    \cup [page_content : {"derivative"}, subject : {"Math"}, meta_ok : {TRUE}]

\* The scores EnhancedVectorStore.search_documents returns for the query
\* "ohm" on the stores of one chunk of Chunks: the squared L2 distances when
\* use_reranking is False, the combined scores when it is True.
ProScores(use_reranking) ==
    {SearchResults(<<Embed(c.page_content, dimension)>>, <<c>>, "ohm", 1,
                   use_reranking, dimension, FALSE)[1].score : c \in Chunks}

ProScoresRaw == ProScores(FALSE)

ProScoresReranked == ProScores(TRUE)

ProResults(scores) ==
    UNION {[1..n -> [doc : ProDocs, score : scores]] : n \in 0..MaxK}

ProResultsRaw == ProResults(ProScoresRaw)

ProResultsReranked == ProResults(ProScoresReranked)

\* vector_store.search_documents(question, k, use_reranking) returns
\* (doc, score) pairs or raises.
ProSearchOutcomes(use_reranking) ==
    {[kind |-> "raises", results |-> <<>>]}
    \cup [kind : {"ok"},
          results : IF use_reranking THEN ProResultsReranked
                    ELSE ProResultsRaw]

\* self.llm(prompt) returns a text or raises.
ProLlmOutcomes ==
    {[kind |-> "raises", text |-> <<>>]}
    \cup [kind : {"ok"}, text : {<<>>, <<"a">>}]

NoProResponse ==
    [answer |-> <<>>, confidence |-> 0, sources |-> <<>>, model_used |-> "none",
     source_scores |-> <<>>, error |-> FALSE]

\* ask_question, lines 272-285: the response of the exception handler.
ProExceptResponse(question) ==
    [answer |-> FallbackGetResponse(question), confidence |-> min_confidence,
     sources |-> <<>>, model_used |-> "fallback", source_scores |-> <<>>,
     error |-> TRUE]

\* max(s for _, s in results), results not empty
MaxScore(results) ==
    CHOOSE m \in {results[i].score : i \in 1..Len(results)} :
        \A i \in 1..Len(results) : results[i].score <= m

\* ask_question, lines 224-229: doc.metadata.get raises when metadata is
\* None; the comprehension is evaluated only with a truthy filter.
SubjectFilterRaises(results, subject_filter) ==
    /\ subject_filter # ""
    /\ \E i \in 1..Len(results) : ~results[i].doc.meta_ok

\* A filter that keeps every result.
SubjectFilterMutant(results, subject_filter) == results

SubjectFilter(results, subject_filter) ==
    IF subject_filter = "" THEN results
    ELSE SelectSeq(results,
             LAMBDA r : SubjectLower(r.doc.subject) = SubjectLower(subject_filter))

\* An engine that answers with its model whenever it has one, results or
\* not.
ProResponseMutant(engine, question, subject_filter, search, llm) ==
    IF search.kind = "raises" \/ SubjectFilterRaises(search.results, subject_filter)
    THEN ProExceptResponse(question)
    ELSE LET results == SubjectFilter(search.results, subject_filter)
             sources == [i \in 1..Len(results) |-> results[i].doc]
             scores == [i \in 1..Len(results) |-> results[i].score]
         IN  IF engine.llm_available
             THEN IF llm.kind = "raises"
                  THEN ProExceptResponse(question)
                  ELSE [answer |-> llm.text,
                        confidence |-> IF results = <<>> THEN min_confidence
                                       ELSE MaxScore(results),
                        sources |-> sources, model_used |-> engine.model_type,
                        source_scores |-> scores, error |-> FALSE]
             ELSE [answer |-> FallbackGetResponse(question),
                   confidence |-> min_confidence, sources |-> sources,
                   model_used |-> "fallback", source_scores |-> scores,
                   error |-> FALSE]

\* ask_question, lines 216-270, as a function of what its collaborators do.
ProResponse(engine, question, subject_filter, search, llm) ==
    IF search.kind = "raises" \/ SubjectFilterRaises(search.results, subject_filter)
    THEN ProExceptResponse(question)
    ELSE LET results == SubjectFilter(search.results, subject_filter)
             sources == [i \in 1..Len(results) |-> results[i].doc]
             scores == [i \in 1..Len(results) |-> results[i].score]
         IN  IF engine.llm_available /\ results # <<>>
             THEN IF llm.kind = "raises"
                  THEN ProExceptResponse(question)
                  ELSE [answer |-> llm.text, confidence |-> MaxScore(results),
                        sources |-> sources, model_used |-> engine.model_type,
                        source_scores |-> scores, error |-> FALSE]
             ELSE [answer |-> FallbackGetResponse(question),
                   confidence |-> min_confidence, sources |-> sources,
                   model_used |-> "fallback", source_scores |-> scores,
                   error |-> FALSE]

NoPro == [engine |-> [model_type |-> "none", use_reranking |-> FALSE,
                      llm_available |-> FALSE],
          question |-> <<>>, subject_filter |-> "",
          search |-> [kind |-> "none", results |-> <<>>],
          llm_called |-> FALSE, llm_raised |-> FALSE,
          response |-> NoProResponse]

InitPro ==
    /\ ppc = "idle"
    /\ pro = NoPro

\* ProfessionalRAGEngine.ask_question, the whole call.  llm_called and
\* llm_raised record what happened at line 244.
ProAsk(engine, question, subject_filter, search, llm) ==
    /\ UNCHANGED ollamaVars
    /\ UNCHANGED storeVars
    /\ UNCHANGED <<legacyVars, managerVars>>
    /\ pc = "idle"
    /\ ppc = "idle"
    /\ LET reached ==
               /\ search.kind = "ok"
               /\ ~SubjectFilterRaises(search.results, subject_filter)
               /\ engine.llm_available
               /\ SubjectFilter(search.results, subject_filter) # <<>>
       IN  pro' = [engine |-> engine, question |-> question,
                   subject_filter |-> subject_filter, search |-> search,
                   llm_called |-> reached,
                   llm_raised |-> reached /\ llm.kind = "raises",
                   response |-> ProResponse(engine, question, subject_filter,
                                            search, llm)]
    /\ ppc' = "done"

\* The response goes to the caller.
ProReturn ==
    /\ UNCHANGED ollamaVars
    /\ UNCHANGED storeVars
    /\ UNCHANGED <<legacyVars, managerVars>>
    /\ ppc = "done"
    /\ ppc' = "idle"
    /\ pro' = NoPro

----------------------------------------------------------------------------
(* The legacy package: strings *)

\* s.find(sub): the offset of the first occurrence of sub in s, -1 for none.
Find(s, sub) ==
    LET at == {i \in 0..(Len(s) - Len(sub)) :
                  \A j \in 1..Len(sub) : s[i + j] = sub[j]}
    IN  IF at = {} THEN -1 ELSE CHOOSE i \in at : \A h \in at : i <= h

\* s.split(sep)[0]
SplitFirst(s, sep) ==
    IF Find(s, sep) = -1 THEN s ELSE SubSeq(s, 1, Find(s, sep))

\* s.split(sep)[1], for a separator that occurs in s
SplitSecond(s, sep) ==
    SplitFirst(SubSeq(s, Find(s, sep) + Len(sep) + 1, Len(s)), sep)

\* s[:n]
Take(s, n) == SubSeq(s, 1, Min(n, Len(s)))

\* sep.join(parts)
RECURSIVE Join(_, _)
Join(sep, parts) ==
    IF parts = <<>> THEN <<>>
    ELSE IF Len(parts) = 1 THEN parts[1]
    ELSE parts[1] \o sep \o Join(sep, Tail(parts))

----------------------------------------------------------------------------
(* The legacy package: VectorStore *)

\* The lists of documents create_vector_store is given: page_content and
\* the subject of the metadata.
LegacyDocuments ==
    LET ohm == [page_content |-> <<"o", "h", "m">>, subject |-> "Électricité"]
        cours == [page_content |-> <<"c", "o", "u", "r", "s">>, subject |-> "Maths"]
    IN  {<<>>, <<ohm>>, <<cours>>, <<ohm, cours>>}

\* self.vector_store = None, as __init__ leaves it (line 34).
NoVectorStore == [is_none |-> TRUE, docs |-> <<>>]

\* The distance, in hundredths, the embedding provider puts between a query
\* and a document: 0 for a document the query quotes, 1 for any other.
LegacyDistance(query_, doc) ==
    IF Contains(Lower(query_), doc.page_content) THEN 0 ELSE 100

\* FAISS similarity_search_with_score(query, k, filter): the k nearest of
\* the documents the filter keeps, nearest first, each with its distance.
SimilaritySearchWithScore(store, query_, k, subject) ==
    LET ds == store.docs
        kept == {i \in 1..Len(ds) : subject = "" \/ ds[i].subject = subject}
        rank(i) == 1 + Cardinality({j \in kept :
                       \/ LegacyDistance(query_, ds[j]) < LegacyDistance(query_, ds[i])
                       \/ /\ LegacyDistance(query_, ds[j]) = LegacyDistance(query_, ds[i])
                          /\ j < i})
    IN  [p \in 1..Min(k, Cardinality(kept)) |->
            LET i == CHOOSE i \in kept : rank(i) = p
            IN  [doc |-> ds[i], score |-> LegacyDistance(query_, ds[i])]]

\* A build that takes the empty list like any other.
CreateVectorStoreReturnsMutant(documents_, raises) == ~raises

\* What VectorStore.create_vector_store returns, lines 47-68: False for an
\* empty list and when FAISS.from_documents raises.
CreateVectorStoreReturns(documents_, raises) ==
    IF documents_ = <<>> THEN FALSE ELSE ~raises

\* VectorStore.search_similar, lines 127-149: [] without a store and when
\* the search raises.
search_similar(store, query_, k, subject, raises) ==
    IF store.is_none THEN <<>>
    ELSE IF raises THEN <<>>
    ELSE LET rs == SimilaritySearchWithScore(store, query_, k, subject)
         IN  [p \in 1..Len(rs) |-> rs[p].doc]

\* VectorStore.search_with_scores, lines 162-176.
search_with_scores(store, query_, k, raises) ==
    IF store.is_none THEN <<>>
    ELSE IF raises THEN <<>>
    ELSE SimilaritySearchWithScore(store, query_, k, "")

----------------------------------------------------------------------------
(* The legacy package: SimpleFallbackLLM *)

\* exact_matches of _get_quick_response, in the order of the dict literal;
\* a canned answer is named by the method that returns it.
exact_matches ==
    << [keyword |-> <<"l", "o", "i", " ", "d", "'", "o", "h", "m">>,
        response |-> "_get_ohm_law_response"],
       [keyword |-> <<"t", "h", "é", "o", "r", "è", "m", "e", " ", "d", "e",
                      " ", "t", "h", "é", "v", "e", "n", "i", "n">>,
        response |-> "_get_thevenin_response"],
       [keyword |-> <<"p", "u", "i", "s", "s", "a", "n", "c", "e", " ", "é",
                      "l", "e", "c", "t", "r", "i", "q", "u", "e">>,
        response |-> "_get_power_response"],
       [keyword |-> <<"d", "é", "r", "i", "v", "é", "e">>,
        response |-> "get_derivative_response"],
       [keyword |-> <<"i", "n", "t", "é", "g", "r", "a", "l", "e">>,
        response |-> "get_integral_response"],
       [keyword |-> <<"p", "h">>,
        response |-> "get_ph_response"],
       [keyword |-> <<"l", "o", "i", "s", " ", "d", "e", " ", "n", "e", "w",
                      "t", "o", "n">>,
        response |-> "get_newton_response"],
       [keyword |-> <<"t", "r", "a", "n", "s", "i", "s", "t", "o", "r">>,
        response |-> "get_transistor_response"] >>

\* self.precomputed_responses, in the order of the dict literal of
\* _load_precomputed_responses.
precomputed_responses ==
    << [keyword |-> <<"l", "o", "i", " ", "d", "'", "o", "h", "m">>,
        response |-> "_get_ohm_law_response"],
       [keyword |-> <<"o", "h", "m">>,
        response |-> "_get_ohm_law_response"],
       [keyword |-> <<"t", "h", "é", "v", "e", "n", "i", "n">>,
        response |-> "_get_thevenin_response"],
       [keyword |-> <<"t", "h", "e", "v", "e", "n", "i", "n">>,
        response |-> "_get_thevenin_response"],
       [keyword |-> <<"p", "u", "i", "s", "s", "a", "n", "c", "e", " ", "é",
                      "l", "e", "c", "t", "r", "i", "q", "u", "e">>,
        response |-> "_get_power_response"],
       [keyword |-> <<"p", "u", "i", "s", "s", "a", "n", "c", "e">>,
        response |-> "_get_power_response"],
       [keyword |-> <<"t", "r", "a", "n", "s", "f", "o", "r", "m", "a", "t",
                      "e", "u", "r">>,
        response |-> "get_transformer_response"],
       [keyword |-> <<"i", "m", "p", "é", "d", "a", "n", "c", "e">>,
        response |-> "get_impedance_response"],
       [keyword |-> <<"i", "m", "p", "e", "d", "a", "n", "c", "e">>,
        response |-> "get_impedance_response"],
       [keyword |-> <<"d", "é", "r", "i", "v", "é", "e">>,
        response |-> "get_derivative_response"],
       [keyword |-> <<"d", "é", "r", "i", "v", "e", "r">>,
        response |-> "get_derivative_response"],
       [keyword |-> <<"i", "n", "t", "é", "g", "r", "a", "l", "e">>,
        response |-> "get_integral_response"],
       [keyword |-> <<"i", "n", "t", "é", "g", "r", "e", "r">>,
        response |-> "get_integral_response"],
       [keyword |-> <<"l", "i", "m", "i", "t", "e">>,
        response |-> "get_limit_response"],
       [keyword |-> <<"f", "o", "n", "c", "t", "i", "o", "n">>,
        response |-> "get_function_response"],
       [keyword |-> <<"n", "e", "w", "t", "o", "n">>,
        response |-> "get_newton_response"],
       [keyword |-> <<"f", "o", "r", "c", "e">>,
        response |-> "get_force_response"],
       [keyword |-> <<"é", "n", "e", "r", "g", "i", "e">>,
        response |-> "get_energy_response"],
       [keyword |-> <<"m", "o", "u", "v", "e", "m", "e", "n", "t">>,
        response |-> "get_motion_response"],
       [keyword |-> <<"v", "i", "t", "e", "s", "s", "e">>,
        response |-> "get_velocity_response"],
       [keyword |-> <<"a", "c", "c", "é", "l", "é", "r", "a", "t", "i", "o",
                      "n">>,
        response |-> "get_acceleration_response"],
       [keyword |-> <<"p", "h">>,
        response |-> "get_ph_response"],
       [keyword |-> <<"a", "c", "i", "d", "e">>,
        response |-> "get_acid_response"],
       [keyword |-> <<"b", "a", "s", "e">>,
        response |-> "get_base_response"],
       [keyword |-> <<"m", "o", "l", "é", "c", "u", "l", "e">>,
        response |-> "get_molecule_response"],
       [keyword |-> <<"a", "t", "o", "m", "e">>,
        response |-> "get_atom_response"],
       [keyword |-> <<"r", "é", "a", "c", "t", "i", "o", "n">>,
        response |-> "get_reaction_response"],
       [keyword |-> <<"t", "r", "a", "n", "s", "i", "s", "t", "o", "r">>,
        response |-> "get_transistor_response"],
       [keyword |-> <<"a", "m", "p", "l", "i", "f", "i", "c", "a", "t", "e",
                      "u", "r">>,
        response |-> "get_amplifier_response"],
       [keyword |-> <<"c", "i", "r", "c", "u", "i", "t">>,
        response |-> "get_circuit_response"],
       [keyword |-> <<"r", "é", "s", "i", "s", "t", "a", "n", "c", "e">>,
        response |-> "get_resistance_response"],
       [keyword |-> <<"c", "o", "n", "d", "e", "n", "s", "a", "t", "e", "u",
                      "r">>,
        response |-> "get_capacitor_response"],
       [keyword |-> <<"i", "n", "d", "u", "c", "t", "a", "n", "c", "e">>,
        response |-> "get_inductance_response"],
       [keyword |-> <<"t", "h", "e", "r", "m", "o", "d", "y", "n", "a", "m",
                      "i", "q", "u", "e">>,
        response |-> "get_thermodynamics_response"],
       [keyword |-> <<"t", "h", "e", "r", "m", "o">>,
        response |-> "get_thermodynamics_response"],
       [keyword |-> <<"o", "p", "t", "i", "q", "u", "e">>,
        response |-> "get_optics_response"],
       [keyword |-> <<"l", "u", "m", "i", "è", "r", "e">>,
        response |-> "get_optics_response"],
       [keyword |-> <<"b", "i", "o", "l", "o", "g", "i", "e">>,
        response |-> "get_biology_response"],
       [keyword |-> <<"c", "e", "l", "l", "u", "l", "e">>,
        response |-> "get_biology_response"],
       [keyword |-> <<"g", "é", "o", "l", "o", "g", "i", "e">>,
        response |-> "get_geology_response"],
       [keyword |-> <<"t", "e", "r", "r", "e">>,
        response |-> "get_geology_response"],
       [keyword |-> <<"a", "s", "t", "r", "o", "n", "o", "m", "i", "e">>,
        response |-> "get_astronomy_response"],
       [keyword |-> <<"e", "s", "p", "a", "c", "e">>,
        response |-> "get_astronomy_response"],
       [keyword |-> <<"p", "s", "y", "c", "h", "o", "l", "o", "g", "i", "e">>,
        response |-> "get_psychology_response"],
       [keyword |-> <<"c", "o", "m", "p", "o", "r", "t", "e", "m", "e", "n",
                      "t">>,
        response |-> "get_psychology_response"] >>

\* The keyword branches of _generate_response, lines 288-620, in order.
response_branches ==
    << [branch |-> "ohm",
        keywords |->
          << <<"l", "o", "i", " ", "d", "'", "o", "h", "m">>,
             <<"o", "h", "m">> >>],
       [branch |-> "thevenin",
        keywords |->
          << <<"t", "h", "é", "v", "e", "n", "i", "n">>,
             <<"t", "h", "e", "v", "e", "n", "i", "n">> >>],
       [branch |-> "puissance",
        keywords |->
          << <<"p", "u", "i", "s", "s", "a", "n", "c", "e">> >>],
       [branch |-> "transformateur",
        keywords |->
          << <<"t", "r", "a", "n", "s", "f", "o", "r", "m", "a", "t", "e",
               "u", "r">> >>],
       [branch |-> "impedance",
        keywords |->
          << <<"i", "m", "p", "é", "d", "a", "n", "c", "e">>,
             <<"i", "m", "p", "e", "d", "a", "n", "c", "e">> >>],
       [branch |-> "derivee",
        keywords |->
          << <<"d", "é", "r", "i", "v", "é", "e">>,
             <<"d", "é", "r", "i", "v", "e", "r">> >>],
       [branch |-> "integrale",
        keywords |->
          << <<"i", "n", "t", "é", "g", "r", "a", "l", "e">>,
             <<"i", "n", "t", "é", "g", "r", "e", "r">> >>],
       [branch |-> "ph",
        keywords |->
          << <<"p", "h">>,
             <<"a", "c", "i", "d", "e">>,
             <<"b", "a", "s", "e">> >>] >>

\* The first entry of a table whose keyword occurs in the text.
FirstMatch(entries, text) ==
    LET hits == {n \in 1..Len(entries) : Contains(text, entries[n].keyword)}
    IN  IF hits = {} THEN NoMatch
        ELSE CHOOSE n \in hits : \A h \in hits : n <= h

\* _get_quick_response: the exact table, then the partial one, on the
\* lowercased question; "None" when no keyword occurs.
GetQuickResponse(question) ==
    LET question_lower == Lower(question)
        exact == FirstMatch(exact_matches, question_lower)
        partial == FirstMatch(precomputed_responses, question_lower)
    IN  IF exact # NoMatch THEN exact_matches[exact].response
        ELSE IF partial # NoMatch THEN precomputed_responses[partial].response
        ELSE "None"

\* An answer of the legacy engine: its kind, the name of the canned answer
\* or of the branch, and the text the answer quotes.
Answer(kind, name, body) == [kind |-> kind, name |-> name, body |-> body]

\* _generate_response: a keyword branch, else the generic answer, built on
\* the first 500 characters of the context when there is one and on the
\* question otherwise.
LegacyGenerateResponse(question, context_) ==
    LET question_lower == Lower(question)
        hits == {b \in 1..Len(response_branches) :
                    \E n \in 1..Len(response_branches[b].keywords) :
                        Contains(question_lower, response_branches[b].keywords[n])}
    IN  IF hits # {}
        THEN Answer("branch",
                    response_branches[CHOOSE b \in hits : \A h \in hits : b <= h].branch,
                    <<>>)
        ELSE IF context_ # <<>>
        THEN Answer("context", "",
                    IF Len(context_) > 500
                    THEN Take(context_, 500) \o <<".", ".", ".">>
                    ELSE context_)
        ELSE Answer("general", "", question)

context_marker ==
    <<"C", "o", "n", "t", "e", "x", "t", "e", " ", "d", "e", "s", " ", "d",
      "o", "c", "u", "m", "e", "n", "t", "s", ":">>

question_marker ==
    <<"Q", "u", "e", "s", "t", "i", "o", "n", " ", "d", "e", " ", "l", "'",
      "é", "t", "u", "d", "i", "a", "n", "t", ":">>

\* SimpleFallbackLLM.__call__, lines 28-44: the question is the first line
\* after the question marker, or the whole prompt when a marker is missing.
SimpleFallbackLLM(prompt) ==
    LET marked == Contains(prompt, context_marker) /\ Contains(prompt, question_marker)
        context_part ==
            IF marked
            THEN Strip(SplitFirst(SplitSecond(prompt, context_marker), question_marker))
            ELSE <<>>
        question ==
            IF marked
            THEN Strip(SplitFirst(SplitSecond(prompt, question_marker), <<"\n">>))
            ELSE prompt
        quick_response == GetQuickResponse(question)
    IN  IF quick_response # "None"
        THEN Answer("canned", quick_response, <<>>)
        ELSE LegacyGenerateResponse(question, context_part)

----------------------------------------------------------------------------
(* The legacy package: RAGEngine.ask_question *)

\* RAGEngine._calculate_confidence, lines 870-897, on the number of sources
\* and the scores search_with_scores returns (L2 distances): 0 without
\* sources, 0.5 without scores, otherwise 1 - average / 2 clamped to
\* [0, 1]; in hundredths, rounded down.
RagCalculateConfidence(n_sources, scores) ==
    IF n_sources = 0 THEN 0
    ELSE IF scores = <<>> THEN 50
    ELSE LET avg_score == SumSeq(scores) \div Len(scores)
             raw == 100 - avg_score \div 2
         IN  IF raw < 0 THEN 0 ELSE Min(100, raw)

\* The context of line 841 and the prompt of line 842.
LegacyPrompt(relevant_docs, question) ==
    LET question_label ==
            <<"\n", "\n", "Q", "u", "e", "s", "t", "i", "o", "n", " ", "d",
              "e", " ", "l", "'", "é", "t", "u", "d", "i", "a", "n", "t", ":",
              " ">>
        answer_label ==
            <<"\n", "\n", "R", "é", "p", "o", "n", "s", "e", ":">>
    IN  context_marker \o <<"\n">>
            \o Join(<<"\n">>, [i \in 1..Min(3, Len(relevant_docs)) |->
                                  Take(relevant_docs[i].page_content, 500)])
            \o question_label \o question \o answer_label

NoRagResponse ==
    [answer |-> Answer("none", "", <<>>), sources |-> <<>>, confidence |-> 0]

\* RAGEngine.ask_question, lines 792-868, as a function of the engine's
\* llm, the store, the arguments and the outcomes of its collaborators.
RagAskQuestion(llm, store, question, subject_filter, search_raises, scores_raises, chain) ==
    IF llm = "none"
    THEN [answer |-> Answer("not_configured", "", <<>>),
          sources |-> <<>>, confidence |-> 0]
    ELSE LET relevant_docs ==
                 search_similar(store, question, 3, subject_filter, search_raises)
             scored ==
                 search_with_scores(store, question, Len(relevant_docs), scores_raises)
         IN  IF relevant_docs = <<>>
             THEN [answer |-> Answer("no_information", "", <<>>),
                   sources |-> <<>>, confidence |-> 0]
             ELSE IF llm = "qa_chain" /\ chain = "raises"
             THEN [answer |-> Answer("error", "", <<>>),
                   sources |-> <<>>, confidence |-> 0]
             ELSE [answer |->
                       IF llm = "SimpleFallbackLLM"
                       THEN SimpleFallbackLLM(LegacyPrompt(relevant_docs, question))
                       ELSE Answer("chain", "", <<>>),
                   sources |-> relevant_docs,
                   confidence |->
                       RagCalculateConfidence(Len(relevant_docs),
                           [p \in 1..Len(scored) |-> scored[p].score])]

----------------------------------------------------------------------------
(* The legacy package: MetricsService.detect_subject *)

\* subject_keywords, in the order of the dict literal.
subject_keywords ==
    << [subject |-> "mathematics",
        keywords |->
          << <<"m", "a", "t", "h">>,
             <<"c", "a", "l", "c", "u", "l">>,
             <<"d", "é", "r", "i", "v", "é", "e">>,
             <<"i", "n", "t", "é", "g", "r", "a", "l", "e">>,
             <<"a", "l", "g", "è", "b", "r", "e">>,
             <<"é", "q", "u", "a", "t", "i", "o", "n">> >>],
       [subject |-> "physics",
        keywords |->
          << <<"p", "h", "y", "s", "i", "q", "u", "e">>,
             <<"n", "e", "w", "t", "o", "n">>,
             <<"f", "o", "r", "c", "e">>,
             <<"é", "n", "e", "r", "g", "i", "e">>,
             <<"m", "o", "u", "v", "e", "m", "e", "n", "t">>,
             <<"t", "h", "e", "r", "m", "o", "d", "y", "n", "a", "m", "i",
               "q", "u", "e">> >>],
       [subject |-> "chemistry",
        keywords |->
          << <<"c", "h", "i", "m", "i", "e">>,
             <<"m", "o", "l", "é", "c", "u", "l", "e">>,
             <<"a", "t", "o", "m", "e">>,
             <<"r", "é", "a", "c", "t", "i", "o", "n">>,
             <<"p", "h">>,
             <<"a", "c", "i", "d", "e">>,
             <<"b", "a", "s", "e">> >>],
       [subject |-> "electronics",
        keywords |->
          << <<"é", "l", "e", "c", "t", "r", "o", "n", "i", "q", "u", "e">>,
             <<"c", "i", "r", "c", "u", "i", "t">>,
             <<"t", "r", "a", "n", "s", "i", "s", "t", "o", "r">>,
             <<"o", "h", "m">>,
             <<"r", "é", "s", "i", "s", "t", "a", "n", "c", "e">>,
             <<"c", "o", "n", "d", "e", "n", "s", "a", "t", "e", "u", "r">> >>],
       [subject |-> "biology",
        keywords |->
          << <<"b", "i", "o", "l", "o", "g", "i", "e">>,
             <<"c", "e", "l", "l", "u", "l", "e">>,
             <<"a", "d", "n">>,
             <<"p", "r", "o", "t", "é", "i", "n", "e">>,
             <<"m", "i", "t", "o", "s", "e">>,
             <<"p", "h", "o", "t", "o", "s", "y", "n", "t", "h", "è", "s",
               "e">> >>],
       [subject |-> "geology",
        keywords |->
          << <<"g", "é", "o", "l", "o", "g", "i", "e">>,
             <<"r", "o", "c", "h", "e">>,
             <<"t", "e", "r", "r", "e">>,
             <<"s", "é", "i", "s", "m", "e">>,
             <<"v", "o", "l", "c", "a", "n">>,
             <<"t", "e", "c", "t", "o", "n", "i", "q", "u", "e">> >>],
       [subject |-> "astronomy",
        keywords |->
          << <<"a", "s", "t", "r", "o", "n", "o", "m", "i", "e">>,
             <<"é", "t", "o", "i", "l", "e">>,
             <<"p", "l", "a", "n", "è", "t", "e">>,
             <<"g", "a", "l", "a", "x", "i", "e">>,
             <<"u", "n", "i", "v", "e", "r", "s">>,
             <<"s", "y", "s", "t", "è", "m", "e", " ", "s", "o", "l", "a",
               "i", "r", "e">> >>],
       [subject |-> "psychology",
        keywords |->
          << <<"p", "s", "y", "c", "h", "o", "l", "o", "g", "i", "e">>,
             <<"c", "o", "m", "p", "o", "r", "t", "e", "m", "e", "n", "t">>,
             <<"m", "é", "m", "o", "i", "r", "e">>,
             <<"a", "p", "p", "r", "e", "n", "t", "i", "s", "s", "a", "g",
               "e">>,
             <<"c", "o", "g", "n", "i", "t", "i", "o", "n">> >>],
       [subject |-> "computer_science",
        keywords |->
          << <<"i", "n", "f", "o", "r", "m", "a", "t", "i", "q", "u", "e">>,
             <<"a", "l", "g", "o", "r", "i", "t", "h", "m", "e">>,
             <<"p", "r", "o", "g", "r", "a", "m", "m", "a", "t", "i", "o",
               "n">>,
             <<"d", "o", "n", "n", "é", "e", "s">>,
             <<"r", "é", "s", "e", "a", "u">> >>] >>

\* A scan that keeps the last subject that matches.
DetectSubjectMutant(question) ==
    LET question_lower == Lower(question)
        hits == {s \in 1..Len(subject_keywords) :
                    \E n \in 1..Len(subject_keywords[s].keywords) :
                        Contains(question_lower, subject_keywords[s].keywords[n])}
    IN  IF hits = {} THEN "None"
        ELSE subject_keywords[CHOOSE s \in hits : \A h \in hits : h <= s].subject

\* detect_subject, lines 220-240: the first subject, in dict order, one of
\* whose keywords occurs in question.lower(); "None" stands for None.
DetectSubject(question) ==
    LET question_lower == Lower(question)
        hits == {s \in 1..Len(subject_keywords) :
                    \E n \in 1..Len(subject_keywords[s].keywords) :
                        Contains(question_lower, subject_keywords[s].keywords[n])}
    IN  IF hits = {} THEN "None"
        ELSE subject_keywords[CHOOSE s \in hits : \A h \in hits : s <= h].subject

----------------------------------------------------------------------------
(* The legacy package: calls *)

\* Questions put to the legacy engine and to its keyword fallback.
LegacyQuestions ==
    { <<"l", "o", "i", " ", "d", "'", "o", "h", "m">>,
      <<"O", "H", "M">>,
      <<"o", "h", "m", " ", "e", "t", " ", "t", "r", "a", "n", "s", "i", "s",
        "t", "o", "r">>,
      <<"t", "h", "e", "v", "e", "n", "i", "n">>,
      <<"g", "r", "a", "p", "h", "e">>,
      <<"b", "o", "n", "j", "o", "u", "r">>,
      <<"b", "o", "n", "j", "o", "u", "r", "\n", "o", "h", "m">> }

\* Questions put to detect_subject.
MetricsQuestions ==
    { <<"c", "a", "l", "c", "u", "l", " ", "d", "e", " ", "l", "a", " ", "f",
        "o", "r", "c", "e">>,
      <<"l", "a", " ", "p", "h", "o", "t", "o", "s", "y", "n", "t", "h", "è",
        "s", "e">>,
      <<"P", "H", "O", "T", "O">>,
      <<"b", "a", "s", "e", " ", "d", "e", " ", "d", "o", "n", "n", "é", "e",
        "s">>,
      <<"l", "e", " ", "s", "y", "s", "t", "è", "m", "e", " ", "s", "o", "l",
        "a", "i", "r", "e">>,
      <<"u", "n", " ", "a", "l", "g", "o", "r", "i", "t", "h", "m", "e">>,
      <<"b", "o", "n", "j", "o", "u", "r">> }

NoLegacy ==
    [op |-> "none", was_none |-> TRUE, llm |-> "none", question |-> <<>>,
     k |-> 0, subject_filter |-> "", input |-> <<>>, retrieved |-> <<>>,
     prompt |-> <<>>, ret |-> FALSE, results |-> <<>>, subject |-> "None",
     response |-> NoRagResponse]

InitLegacy ==
    /\ vector_store = NoVectorStore
    /\ legacy = NoLegacy

\* VectorStore.create_vector_store, the whole call.
LegacyCreateVectorStore(documents_, raises) ==
    /\ UNCHANGED <<ollamaVars, storeVars, proVars, managerVars>>
    /\ vector_store' = IF CreateVectorStoreReturns(documents_, raises)
                       THEN [is_none |-> FALSE, docs |-> documents_]
                       ELSE vector_store
    /\ legacy' = [NoLegacy EXCEPT !.op = "create_vector_store",
                                  !.was_none = vector_store.is_none,
                                  !.input = documents_,
                                  !.ret = CreateVectorStoreReturns(documents_, raises)]

\* VectorStore.search_similar, the whole call.
LegacySearchSimilar(query_, k, subject, raises) ==
    /\ UNCHANGED <<ollamaVars, storeVars, proVars, managerVars>>
    /\ UNCHANGED vector_store
    /\ legacy' = [NoLegacy EXCEPT !.op = "search_similar",
                                  !.was_none = vector_store.is_none,
                                  !.question = query_,
                                  !.k = k,
                                  !.subject_filter = subject,
                                  !.results = search_similar(vector_store, query_, k,
                                                             subject, raises)]

\* VectorStore.search_with_scores, the whole call.
LegacySearchWithScores(query_, k, raises) ==
    /\ UNCHANGED <<ollamaVars, storeVars, proVars, managerVars>>
    /\ UNCHANGED vector_store
    /\ legacy' = [NoLegacy EXCEPT !.op = "search_with_scores",
                                  !.was_none = vector_store.is_none,
                                  !.question = query_,
                                  !.k = k,
                                  !.results = search_with_scores(vector_store, query_, k,
                                                                 raises)]

\* RAGEngine.ask_question, the whole call; retrieved records what
\* search_similar returned at line 822.
LegacyAskQuestion(llm, question, subject_filter, search_raises, scores_raises, chain) ==
    /\ UNCHANGED <<ollamaVars, storeVars, proVars, managerVars>>
    /\ UNCHANGED vector_store
    /\ legacy' = [NoLegacy EXCEPT !.op = "ask_question",
                                  !.was_none = vector_store.is_none,
                                  !.llm = llm,
                                  !.question = question,
                                  !.k = 3,
                                  !.subject_filter = subject_filter,
                                  !.retrieved =
                                      IF llm = "none" THEN <<>>
                                      ELSE search_similar(vector_store, question, 3,
                                                          subject_filter, search_raises),
                                  !.response =
                                      RagAskQuestion(llm, vector_store, question,
                                                     subject_filter, search_raises,
                                                     scores_raises, chain)]

\* SimpleFallbackLLM.__call__, the whole call, on a prompt that carries the
\* question: the question alone, or (framed) the prompt ask_question
\* builds around the documents ds.
LegacyLlmCall(question, framed, ds) ==
    /\ UNCHANGED <<ollamaVars, storeVars, proVars, managerVars>>
    /\ UNCHANGED vector_store
    /\ LET prompt == IF framed THEN LegacyPrompt(ds, question) ELSE question
       IN  legacy' = [NoLegacy EXCEPT !.op = "llm",
                                      !.llm = "SimpleFallbackLLM",
                                      !.question = question,
                                      !.input = ds,
                                      !.prompt = prompt,
                                      !.response = [NoRagResponse EXCEPT
                                                       !.answer = SimpleFallbackLLM(prompt)]]

\* MetricsService.detect_subject, the whole call.
LegacyDetectSubject(question) ==
    /\ UNCHANGED <<ollamaVars, storeVars, proVars, managerVars>>
    /\ UNCHANGED vector_store
    /\ legacy' = [NoLegacy EXCEPT !.op = "detect_subject",
                                  !.question = question,
                                  !.subject = DetectSubject(question)]

----------------------------------------------------------------------------
(* OllamaModelManager: the connection flag *)

default_base_url ==
    <<"h", "t", "t", "p", ":", "/", "/", "l", "o", "c", "a", "l", "h", "o",
      "s", "t">>

\* The base_url values update_config is given.
BaseUrls ==
    { default_base_url,
      <<"h", "t", "t", "p", ":", "/", "/", "o", "l", "l", "a", "m", "a">>,
      <<"h", "t", "t", "p", ":", "/", "/", "o", "l", "l", "a", "m", "a", "/">>,
      <<"h", "t", "t", "p", ":", "/", "/", "o", "l", "l", "a", "m", "a", "/",
        "/">> }

\* s.rstrip('/')
RECURSIVE RStripSlash(_)
RStripSlash(s) ==
    IF s # <<>> /\ s[Len(s)] = "/" THEN RStripSlash(SubSeq(s, 1, Len(s) - 1))
    ELSE s

\* What GET /api/tags does: the request raises (refused, timed out), or it
\* answers with a status and a body; a body is "json" when response.json()
\* and the 'name' of every model can be read, "garbled" when reading it
\* raises.
TagOutcomes ==
    {[kind |-> "raises", status_code |-> 0, body |-> "none", models |-> <<>>]}
        \cup [kind : {"answers"}, status_code : {200}, body : {"json"},
              models : {<<>>, <<"llama2">>, <<"llama2", "mistral">>}]
        \cup {[kind |-> "answers", status_code |-> 200, body |-> "garbled",
               models |-> <<>>],
              [kind |-> "answers", status_code |-> 500, body |-> "json",
               models |-> <<>>]}

\* The manager after test_connection, lines 42-53: the flag is assigned at
\* line 46 only, once the request has answered.
TestConnectionState(m, out) ==
    IF out.kind = "raises" THEN m
    ELSE IF out.status_code = 200 /\ out.body = "json"
    THEN [m EXCEPT !.connection_tested = TRUE, !.available_models = out.models]
    ELSE [m EXCEPT !.connection_tested = (out.status_code = 200)]

\* What test_connection returns: the flag at line 50, False from the
\* handler of lines 51-53.
TestConnectionReturns(out) ==
    out.kind = "answers" /\ out.status_code = 200 /\ out.body = "json"

NoManagerCall ==
    [op |-> "none", ret |-> FALSE, models |-> <<>>, tested |-> FALSE,
     last_test |-> FALSE, url_changed |-> FALSE, ollama_connected |-> FALSE]

\* OllamaModelManager.__init__, lines 36-40.
InitManager ==
    /\ manager = [base_url |-> RStripSlash(default_base_url),
                  connection_tested |-> FALSE, available_models |-> <<>>]
    /\ mcall = NoManagerCall

\* test_connection, the whole call.  tested, last_test and url_changed
\* record the history: whether a test has run, what the most recent one
\* returned, and whether update_config has set base_url since.
TestConnection(out) ==
    /\ UNCHANGED <<ollamaVars, storeVars, proVars, legacyVars>>
    /\ manager' = TestConnectionState(manager, out)
    /\ mcall' = [mcall EXCEPT !.op = "test_connection",
                              !.ret = TestConnectionReturns(out),
                              !.models = <<>>,
                              !.tested = TRUE,
                              !.last_test = TestConnectionReturns(out),
                              !.url_changed = FALSE]

\* list_models, lines 59-63: a connection test, then the models it left.
ListModels(out) ==
    /\ UNCHANGED <<ollamaVars, storeVars, proVars, legacyVars>>
    /\ manager' = TestConnectionState(manager, out)
    /\ mcall' = [mcall EXCEPT !.op = "list_models",
                              !.ret = TestConnectionReturns(out),
                              !.models = IF TestConnectionReturns(out)
                                         THEN TestConnectionState(manager, out).available_models
                                         ELSE <<>>,
                              !.tested = TRUE,
                              !.last_test = TestConnectionReturns(out),
                              !.url_changed = FALSE]

\* update_config, lines 154-159.
UpdateConfig(config) ==
    /\ UNCHANGED <<ollamaVars, storeVars, proVars, legacyVars>>
    /\ manager' = IF config.has_base_url
                  THEN [manager EXCEPT !.base_url = RStripSlash(config.base_url),
                                       !.connection_tested = FALSE]
                  ELSE manager
    /\ mcall' = [mcall EXCEPT !.op = "update_config",
                              !.ret = FALSE,
                              !.models = <<>>,
                              !.url_changed = mcall.url_changed \/ config.has_base_url]

\* get_system_status, line 704: is_connected() as the engine reports it.
GetSystemStatus ==
    /\ UNCHANGED <<ollamaVars, storeVars, proVars, legacyVars>>
    /\ UNCHANGED manager
    /\ mcall' = [mcall EXCEPT !.op = "get_system_status",
                              !.ret = FALSE,
                              !.models = <<>>,
                              !.ollama_connected = manager.connection_tested]

----------------------------------------------------------------------------
(* Specifications *)

\* The answer cascade of OllamaRAGEngine, one query after the other, beside
\* a store that is left alone.
Init ==
    /\ InitOllama
    /\ InitPro
    /\ InitStore
    /\ InitLegacy
    /\ InitManager
    /\ embed_dim = dimension
    /\ disk = EmptyDisk

Next ==
    \/ \E q \in Questions, m \in ModelPreferences, k \in MaxSourcesArgs,
          r \in BOOLEAN : Ask(q, m, k, r)
    \/ /\ pc = "retrieve"
       /\ \E found \in StoreResults : RetrieveOk(found)
    \/ RetrieveRaises
    \/ RetrieveNoStore
    \/ Rerank
    \/ GenerateContextRaises
    \/ \E http \in HttpOutcomes : GeneratePrimary(http)
    \/ \E http \in HttpOutcomes : GenerateFallback(http)
    \/ GenerateTemplate
    \/ Finish
    \/ HandleException
    \/ Return
    \/ /\ ppc = "idle"
       /\ pc = "idle"
       /\ \E e \in ProEngines :
             \E q \in ProQuestions, f \in SubjectFilters,
                sr \in ProSearchOutcomes(e.use_reranking),
                lo \in ProLlmOutcomes :
                   ProAsk(e, q, f, sr, lo)
    \/ ProReturn

Spec == Init /\ [][Next]_vars

InitStores ==
    InitOllama /\ InitPro /\ InitStore /\ InitLegacy /\ InitManager

\* The vector store, its calls one after the other, with every way a write
\* of save or a read of load can fail.
NextStore ==
    \/ CreateResetIndex(TRUE)
    \/ CreateResetDocuments(TRUE)
    \/ \E item \in CreateItems : CreateEmbedChunk(TRUE, item)
    \/ CreateNoEmbeddings(TRUE)
    \/ CreateAddVectors(TRUE)
    \/ CreateUpdateStats(TRUE)
    \/ \E written \in SaveWrites : CreateSave(TRUE, written)
    \/ \E written \in SaveWrites : SaveVectorStore(TRUE, written)
    \/ LoadCheckArtifacts(TRUE)
    \/ \E read_ok \in BOOLEAN : LoadIndex(TRUE, read_ok)
    \/ \E read_ok \in BOOLEAN : LoadDocuments(TRUE, read_ok)
    \/ \E read_ok \in BOOLEAN : LoadLookup(TRUE, read_ok)
    \/ \E read_ok \in BOOLEAN : LoadStats(TRUE, read_ok)
    \/ WriterReturn
    \/ Construct(TRUE)

SpecStore == InitStores /\ [][NextStore]_vars

\* The vector store with searches between its calls; the file system works.
NextSearch ==
    \/ CreateResetIndex(TRUE)
    \/ CreateResetDocuments(TRUE)
    \/ \E item \in CreateItems : CreateEmbedChunk(TRUE, item)
    \/ CreateNoEmbeddings(TRUE)
    \/ CreateAddVectors(TRUE)
    \/ CreateUpdateStats(TRUE)
    \/ CreateSave(TRUE, 4)
    \/ SaveVectorStore(TRUE, 4)
    \/ LoadCheckArtifacts(TRUE)
    \/ LoadIndex(TRUE, TRUE)
    \/ LoadDocuments(TRUE, TRUE)
    \/ LoadLookup(TRUE, TRUE)
    \/ LoadStats(TRUE, TRUE)
    \/ WriterReturn
    \/ Construct(TRUE)
    \/ \E q \in QueryTexts, k \in 1..MaxK, rr \in BOOLEAN :
          SearchIndex(TRUE, q, k, rr)
    \/ \E rerank_raises \in BOOLEAN : SearchResolve(TRUE, rerank_raises)
    \/ SearchReturn

SpecSearch == InitStores /\ [][NextSearch]_vars

\* The vector store with one thread in create / save / load and another in
\* search_documents; the file system works.
NextStoreThreads ==
    \/ CreateResetIndex(FALSE)
    \/ CreateResetDocuments(FALSE)
    \/ \E item \in CreateItems : CreateEmbedChunk(FALSE, item)
    \/ CreateNoEmbeddings(FALSE)
    \/ CreateAddVectors(FALSE)
    \/ CreateUpdateStats(FALSE)
    \/ CreateSave(FALSE, 4)
    \/ SaveVectorStore(FALSE, 4)
    \/ LoadCheckArtifacts(FALSE)
    \/ LoadIndex(FALSE, TRUE)
    \/ LoadDocuments(FALSE, TRUE)
    \/ LoadLookup(FALSE, TRUE)
    \/ LoadStats(FALSE, TRUE)
    \/ WriterReturn
    \/ Construct(FALSE)
    \/ \E q \in QueryTexts, k \in 1..MaxK, rr \in BOOLEAN :
          SearchIndex(FALSE, q, k, rr)
    \/ \E rerank_raises \in BOOLEAN : SearchResolve(FALSE, rerank_raises)
    \/ SearchReturn

SpecStoreThreads == InitStores /\ [][NextStoreThreads]_vars

\* Chunks for the ranking of search_documents: next to those of Chunks, one
\* whose embedding is long and one whose embedding is the zero vector (an
\* embedding model that does not normalise its vectors).
RankChunks ==
    Chunks \cup { [page_content |-> "thevenin", subject |-> "Physics"],
                  [page_content |-> "intro", subject |-> "Math"] }

\* create_vector_store and search_documents, one call after the other, on
\* the chunks of RankChunks, every chunk embedded; an embedding call of the
\* reranking may raise.
NextRank ==
    \/ CreateResetIndex(TRUE)
    \/ CreateResetDocuments(TRUE)
    \/ \E chunk \in RankChunks :
          CreateEmbedChunk(TRUE, [chunk |-> chunk, embed_ok |-> TRUE])
    \/ CreateNoEmbeddings(TRUE)
    \/ CreateAddVectors(TRUE)
    \/ CreateUpdateStats(TRUE)
    \/ CreateSave(TRUE, 4)
    \/ WriterReturn
    \/ \E q \in QueryTexts, k \in 1..MaxK, rr \in BOOLEAN :
          SearchIndex(TRUE, q, k, rr)
    \/ \E rerank_raises \in BOOLEAN : SearchResolve(TRUE, rerank_raises)
    \/ SearchReturn

SpecRank == InitStores /\ [][NextRank]_vars

\* The legacy VectorStore, its calls one after the other.
NextLegacyStore ==
    \/ \E ds \in LegacyDocuments, raises \in BOOLEAN :
          LegacyCreateVectorStore(ds, raises)
    \/ \E q \in LegacyQuestions, k \in 1..MaxK, f \in {"", "Électricité"},
          raises \in BOOLEAN : LegacySearchSimilar(q, k, f, raises)
    \/ \E q \in LegacyQuestions, k \in 1..MaxK, raises \in BOOLEAN :
          LegacySearchWithScores(q, k, raises)

\* The legacy package: the store, the engine, the keyword fallback and the
\* subject detection, one call after the other.
NextLegacy ==
    \/ NextLegacyStore
    \/ \E llm \in {"none", "SimpleFallbackLLM", "qa_chain"},
          q \in LegacyQuestions, f \in {"", "Électricité"},
          search_raises \in BOOLEAN, scores_raises \in BOOLEAN,
          chain \in {"ok", "raises"} :
             LegacyAskQuestion(llm, q, f, search_raises, scores_raises, chain)
    \/ \E q \in LegacyQuestions, framed \in BOOLEAN, ds \in LegacyDocuments :
          LegacyLlmCall(q, framed, ds)
    \/ \E q \in MetricsQuestions : LegacyDetectSubject(q)

SpecLegacy == Init /\ [][NextLegacy]_vars

\* A process runs one of the two packages: the calls of the enhanced store
\* while the legacy store has not been used, and those of the legacy store
\* while the enhanced one has not.
NextEitherStore ==
    \/ vector_store = NoVectorStore /\ legacy = NoLegacy /\ NextSearch
    \/ ncalls = 0 /\ wpc = "idle" /\ spc = "idle" /\ NextLegacyStore

SpecEitherStore == InitStores /\ [][NextEitherStore]_vars

\* The connection flag of OllamaModelManager under any sequence of calls.
NextManager ==
    \/ \E out \in TagOutcomes : TestConnection(out)
    \/ \E out \in TagOutcomes : ListModels(out)
    \/ \E config \in [has_base_url : {TRUE}, base_url : BaseUrls]
                       \cup {[has_base_url |-> FALSE, base_url |-> <<>>]} :
          UpdateConfig(config)
    \/ GetSystemStatus

SpecManager == Init /\ [][NextManager]_vars

----------------------------------------------------------------------------
(* Claims about the answer cascade of OllamaRAGEngine *)

\* A registered trigger keyword occurs in the question, whatever the case
\* of the letters.
HasTrigger(question) ==
    \E k \in 1..Len(precomputed_keys) :
        Contains(Lower(question), precomputed_keys[k])

\* The models a generated answer can come from.
GenerationModels ==
    {primary_model} \cup {fallback_models[i] : i \in 1..Len(fallback_models)}
    \cup (ModelPreferences \ {""})

GenerateCalls == SelectSeq(calls, LAMBDA c : c.op = "generate")

\* The models of one query in the order they are to be asked.
ModelsInOrder == <<query.model>> \o fallback_models

AllModelsFailed ==
    /\ Len(GenerateCalls) = Len(ModelsInOrder)
    /\ \A i \in 1..Len(GenerateCalls) : ~GenerateCalls[i].ok

WellFormedDocs == \A i \in 1..Len(docs) : docs[i].content_ok /\ docs[i].meta_ok

\* C1: a question that contains a registered trigger keyword, in any case,
\* gets the precomputed response (model_used "precomputed", confidence 0.9,
\* no sources, fallback_used false) and neither the vector store nor the
\* generation provider is consulted, so their state cannot change it.
C1_PrecomputedWins ==
    (pc # "idle" /\ HasTrigger(query.question)) =>
        /\ pc = "done"
        /\ response.model_used = "precomputed"
        /\ response.confidence = 90
        /\ response.sources = <<>>
        /\ response.source_scores = <<>>
        /\ response.fallback_used = FALSE
        /\ calls = <<>>

\* A trigger typed with capitals, answered from the table.
C1_Witness ==
    /\ pc = "done"
    /\ query.question = <<"a", "l", "p", "H", "a">>
    /\ response.model_used = "precomputed"
    /\ response.answer = precomputed_text[4]

C3_FailureEndsInTemplate ==
    (pc = "done" /\ AllModelsFailed) =>
        /\ response.model_used = "template"
        /\ response.fallback_used = TRUE

\* C3, amended: when every model fails, the generation stage returns the
\* template response (model_used "template", fallback_used true) without
\* raising, and the query ends in the template fallback unless formatting
\* the sources then raises on a malformed document, which ends in the error
\* fallback.
C3_FailureYieldsTemplateData ==
    (pc \in {"finish", "except", "done"} /\ AllModelsFailed) =>
        /\ rdata.model_used = "template"
        /\ rdata.fallback_used = TRUE
        /\ calls[Len(calls)].op = "template"
        /\ pc = "except" => ~WellFormedDocs
        /\ pc = "done" =>
              IF WellFormedDocs
              THEN /\ response.model_used = "template"
                   /\ response.fallback_used = TRUE
                   /\ response.answer = rdata.answer
              ELSE response.model_used = "error_fallback"

\* Three failed calls, with evidence, answered by the template.
C3_Witness ==
    /\ pc = "done"
    /\ AllModelsFailed
    /\ docs # <<>>
    /\ response.model_used = "template"
    /\ response.answer = template_context_text

\* C4: the answer of every returned response is non-empty; a successful
\* call that returns empty or blank text ends in the template fallback.
C4_AnswerNeverEmpty ==
    pc = "done" =>
        /\ response.answer # <<>>
        /\ response.model_used \in GenerationModels =>
              Strip(response.answer) # <<>>

\* C6: one strategy answers a query and none after it runs.  After a
\* precomputed match nothing is called; the generation calls are made on the
\* requested model and then on the fallback models in their configured
\* order, each one only after the failure of the one before; nothing is
\* called after a successful generation; the template is built only after
\* every model failed, and nothing is called after it.
C6_OneStrategyInOrder ==
    /\ (pc = "done" /\ response.model_used = "precomputed") => calls = <<>>
    /\ Len(GenerateCalls) <= Len(ModelsInOrder)
    /\ \A i \in 1..Len(GenerateCalls) :
          /\ GenerateCalls[i].arg = ModelsInOrder[i]
          /\ i < Len(GenerateCalls) => ~GenerateCalls[i].ok
    /\ \A i \in 1..Len(calls) :
          /\ (calls[i].op = "generate" /\ calls[i].ok) => i = Len(calls)
          /\ calls[i].op = "template" =>
                (i = Len(calls) /\ AllModelsFailed)
          /\ calls[i].op \in {"search", "rerank"} =>
                \A j \in 1..i : calls[j].op \in {"search", "rerank"}
    /\ (pc = "done" /\ response.model_used \in GenerationModels) =>
          /\ calls[Len(calls)] = Call("generate", response.model_used, TRUE)
          /\ \A i \in 1..Len(calls) : calls[i].op # "template"

\* The second fallback model answers after two failures.
C6_Witness ==
    /\ pc = "done"
    /\ Len(GenerateCalls) = 3
    /\ response.model_used = fallback_models[2]
    /\ response.fallback_used = TRUE

----------------------------------------------------------------------------
(* Claims about exceptions *)

ModelTypes == {e.model_type : e \in ProEngines}

\* The fields every OllamaResponse carries, in their ranges.
WellFormedResponse(r) ==
    /\ r.model_used \in GenerationModels
                         \cup {"precomputed", "template", "error_fallback"}
    /\ r.confidence \in 0..100
    /\ r.tokens_generated >= 0
    /\ Len(r.sources) = Len(r.source_scores)
    /\ r.quality_assessment \in {"high", "good", "fair", "basic"}
    /\ r.fallback_used \in BOOLEAN

\* The fields every RAGResponse carries; the range of the confidence is
\* the matter of C19.
WellFormedProResponse(r) ==
    /\ r.model_used \in ModelTypes \cup {"fallback"}
    /\ r.confidence \in Int
    /\ Len(r.sources) = Len(r.source_scores)

\* C5: no call of ask_question_async or ask_question raises, and each
\* returns a well-formed response, whatever fails in retrieval, reranking,
\* context building and generation.  In OllamaRAGEngine an exception that
\* leaves the stages (a malformed document met while the context or the
\* sources are built) yields exactly the error fallback: model_used
\* "error_fallback", confidence 0.3, no sources, fallback_used true.  In
\* ProfessionalRAGEngine a raising search, subject filter or LLM yields the
\* fallback answer with model_used "fallback", min_confidence, no sources.
C5_NeverRaises ==
    /\ pc \in {"idle", "retrieve", "rerank", "generate", "fallback",
               "finish", "except", "done"}
    /\ pc = "except" => ~WellFormedDocs
    /\ pc = "done" =>
          /\ WellFormedResponse(response)
          /\ (~HasTrigger(query.question) /\ ~WellFormedDocs) =>
                /\ response.model_used = "error_fallback"
                /\ response.confidence = 30
                /\ response.sources = <<>>
                /\ response.source_scores = <<>>
                /\ response.fallback_used = TRUE
                /\ response.answer = error_fallback_text
          /\ response.model_used = "error_fallback" => ~WellFormedDocs
    /\ ppc \in {"idle", "done"}
    /\ ppc = "done" =>
          /\ WellFormedProResponse(pro.response)
          /\ (\/ pro.search.kind = "raises"
              \/ pro.llm_raised
              \/ (pro.subject_filter # ""
                  /\ \E i \in 1..Len(pro.search.results) :
                        ~pro.search.results[i].doc.meta_ok)) =>
                /\ pro.response.model_used = "fallback"
                /\ pro.response.confidence = min_confidence
                /\ pro.response.sources = <<>>
                /\ pro.response.answer = FallbackGetResponse(pro.question)

\* A generated answer lost to the error fallback by a malformed document of
\* rank 4.
C5_Witness ==
    /\ pc = "done"
    /\ Len(docs) = 4
    /\ ~docs[4].meta_ok
    /\ rdata.model_used = primary_model
    /\ response.model_used = "error_fallback"

----------------------------------------------------------------------------
(* Claims about EnhancedVectorStore *)

CreateReturned(ret) == wpc = "returned" /\ wloc.op = "create" /\ wloc.ret = ret

\* C7: a create_vector_store call that returns False leaves the index, the
\* documents list and document_lookup as they were before the call.
C7_FailedCreateKeepsState ==
    CreateReturned(FALSE) =>
        /\ index = wloc.pre.index
        /\ documents = wloc.pre.documents
        /\ document_lookup = wloc.pre.document_lookup

\* C8: a search that runs beside create_vector_store or load_vector_store
\* has read a complete snapshot: the index and the documents list of the
\* store as it was when the search began, or as a call left it complete.
C8_SearchSeesCompleteSnapshot ==
    (spc = "done" /\ ~IndexRefuses(Embed(sloc.q, embed_dim))) =>
        Snapshot(sloc.seen_index, sloc.seen_documents) \in sloc.snapshots

\* The chunks of the input whose embedding succeeded, in input order.
EmbeddedChunks(input) ==
    LET ok == SelectSeq(input, LAMBDA item : item.embed_ok)
    IN  [i \in 1..Len(ok) |-> ok[i].chunk]

\* C9: after a create_vector_store call that returns True, whichever chunks
\* failed to embed, the documents list and the index have the same length,
\* the documents are the embedded chunks in input order, vector i is the
\* embedding of documents[i], and every id the index search returns
\* resolves to the chunk of that vector.
C9_DocumentsAlignWithVectors ==
    CreateReturned(TRUE) =>
        /\ Len(documents) = Len(index)
        /\ documents = EmbeddedChunks(wloc.input)
        /\ \A i \in 1..Len(index) :
              index[i] = Embed(documents[i].page_content, embed_dim)
        /\ \A q \in QueryTexts, k \in 1..MaxK :
              LET hits == IndexSearch(index, Embed(q, embed_dim), k)
                  results == ResolveHits(hits, documents)
              IN  /\ Len(results) = Min(k, Len(index))
                  /\ \A p \in 1..Len(results) :
                        /\ hits[p].id \in 0..(Len(index) - 1)
                        /\ results[p].doc = documents[hits[p].id + 1]
                        /\ Embed(results[p].doc.page_content, embed_dim)
                              = index[hits[p].id + 1]

\* A build whose first chunk failed to embed and whose second did not.
C9_Witness ==
    /\ CreateReturned(TRUE)
    /\ Len(wloc.input) = 2
    /\ ~wloc.input[1].embed_ok
    /\ wloc.input[2].embed_ok
    /\ Len(index) = 1

\* C10: between calls, stats["total_vectors"] is the number of vectors the
\* index holds and stats["total_documents"] the length of the documents
\* list.
C10_StatsMatchStore ==
    wpc \in {"idle", "returned"} =>
        /\ stats.total_vectors = Len(index)
        /\ stats.total_documents = Len(documents)

----------------------------------------------------------------------------
(* save_vector_store / load_vector_store *)

LoadReturned(ret) == wpc = "returned" /\ wloc.op = "load" /\ wloc.ret = ret

\* C11: a load_vector_store that returns True on the artifacts of a
\* complete save_vector_store (into the store that saved them or into a
\* new store on the same path) holds the vectors and the documents of the
\* saved store, in the same order, and search_documents(q, k) returns on it
\* the list, scores included, it returns on the saved store, for every q,
\* every k and both values of use_reranking.
C11_SaveLoadRoundTrip ==
    (LoadReturned(TRUE) /\ saved.complete) =>
        /\ index = saved.index
        /\ documents = saved.documents
        /\ \A q \in QueryTexts, k \in 1..MaxK, use_reranking \in BOOLEAN :
               SearchResults(index, documents, q, k, use_reranking, embed_dim,
                             FALSE)
               = SearchResults(saved.index, saved.documents, q, k,
                               use_reranking, embed_dim, FALSE)

\* A load that restored two different chunks, which a search finds.
C11_Witness ==
    /\ LoadReturned(TRUE)
    /\ saved.complete
    /\ Len(documents) = 2
    /\ documents[1] # documents[2]
    /\ Len(SearchResults(index, documents, "ohm", 2, FALSE, embed_dim,
                         FALSE)) = 2

\* C12: whenever load_vector_store returns False (an artifact is missing, or
\* the read of index.faiss, documents.pkl, lookup.json or stats.json fails),
\* the index, the documents, document_lookup and stats of the store are
\* those it held before the call.
C12_FailedLoadKeepsState == LoadReturned(FALSE) => Memory = wloc.pre

\* The four artifacts exist and disagree: index.faiss holds another number
\* of vectors than documents.pkl holds records or than stats.json counts, or
\* vectors of another dimension than the configured one.
ArtifactsDisagree ==
    /\ disk.index.exists /\ disk.documents.exists
    /\ disk.lookup.exists /\ disk.stats.exists
    /\ \/ Len(disk.index.data) # Len(disk.documents.data)
       \/ Len(disk.index.data) # disk.stats.data.total_vectors
       \/ \E n \in 1..Len(disk.index.data) : IndexRefuses(disk.index.data[n])

\* C13: load_vector_store returns False, without raising, whenever the
\* persisted artifacts disagree with each other or with the configuration
\* (for instance after a save that failed after writing only some files).
C13_InconsistentLoadRefused ==
    (wpc = "returned" /\ wloc.op = "load" /\ ArtifactsDisagree) => ~wloc.ret

----------------------------------------------------------------------------
(* search_documents: ranking and scores *)

\* A search_documents call has computed what it returns; the index accepted
\* the query.
SearchDone == spc = "done" /\ ~IndexRefuses(Embed(sloc.q, embed_dim))

\* The distance (in hundredths) of a stored chunk from the query of the
\* running search.
DistanceToQuery(doc) ==
    100 * L2(Embed(sloc.q, embed_dim), Embed(doc.page_content, embed_dim))

\* The k nearest stored chunks: positions of the store by ascending
\* distance, the earlier insertion first among equals, at most k of them.
NearestK(k) ==
    LET n == Len(sloc.seen_documents)
        d(i) == DistanceToQuery(sloc.seen_documents[i])
        rank(i) == 1 + Cardinality({j \in 1..n :
                        d(j) < d(i) \/ (d(j) = d(i) /\ j < i)})
    IN  [p \in 1..Min(k, n) |->
            sloc.seen_documents[CHOOSE i \in 1..n : rank(i) = p]]

\* C14: for a flat index, search_documents(q, k) returns exactly the k
\* stored chunks nearest to the query (all of them when fewer than k are
\* stored), by ascending distance, ties in insertion order, with
\* use_reranking True as well as False.
C14_ReturnsKNearest ==
    SearchDone =>
        [p \in 1..Len(sloc.results) |-> sloc.results[p].doc] = NearestK(sloc.k)

\* C15: every score search_documents returns is a non-negative distance of
\* its chunk from the query (smaller is more similar), with use_reranking
\* True as well as False.
C15_ScoresAreDistances ==
    SearchDone =>
        \A p \in 1..Len(sloc.results) :
            /\ sloc.results[p].score >= 0
            /\ sloc.results[p].score = DistanceToQuery(sloc.results[p].doc)

\* C16: when the embedding of the query has another dimension than the
\* stored vectors, search_documents surfaces a configuration error the
\* caller can tell from a legitimate empty result: it does not return an
\* empty list.  (The list is all a search_documents call hands back.)
C16_DimensionMismatchSurfaced ==
    (spc = "done" /\ sloc.seen_index # <<>>
        /\ IndexRefuses(Embed(sloc.q, embed_dim))) =>
        sloc.results # <<>>

\* The valid candidates of the running search: the hits of the index search
\* whose id is a position of the documents list, lines 152-156.
Candidates == ResolveHits(sloc.hits, sloc.seen_documents)

\* C17: with reranking, search_documents(q, k) asks the index for 2k
\* neighbours and returns exactly min(k, c) results, c the number of valid
\* candidates; every result is one of the candidates and no candidate is
\* returned twice.
C17_RerankedFromCandidates ==
    (SearchDone /\ sloc.use_reranking) =>
        /\ Len(sloc.hits) = 2 * sloc.k
        /\ Len(sloc.results) = Min(sloc.k, Len(Candidates))
        /\ \E f \in [1..Len(sloc.results) -> 1..Len(Candidates)] :
              /\ \A p, r \in 1..Len(sloc.results) : f[p] = f[r] => p = r
              /\ \A p \in 1..Len(sloc.results) :
                    sloc.results[p].doc = Candidates[f[p]].doc

\* One result out of two candidates, the second by distance.
C17_Witness ==
    /\ SearchDone
    /\ sloc.use_reranking
    /\ ~sloc.rerank_raised
    /\ sloc.k = 1
    /\ Len(Candidates) = 2
    /\ Len(sloc.results) = 1
    /\ sloc.results[1].doc = Candidates[2].doc
    /\ Candidates[1].doc # Candidates[2].doc

\* EnhancedVectorStore._rerank_results raised: search_documents returns the
\* candidates in the order and with the distances of the index search, cut
\* to k.
StoreRerankFailureKeepsCandidates ==
    (SearchDone /\ sloc.rerank_raised) =>
        sloc.results = FirstK(Candidates, sloc.k)

\* OllamaRAGEngine._rerank_documents raised on a document whose content is
\* not a string: the step of lines 329-331 leaves relevant_docs in the order
\* and with the scores of the retrieval.
OllamaRerankFailureKeepsDocuments ==
    (/\ pc = "rerank" /\ pc' = "generate"
     /\ query.rerank
     /\ \E i \in 1..Len(docs) : ~docs[i].content_ok) => docs' = docs

\* C18: if reranking raises on a candidate (malformed content or metadata),
\* the error is not propagated and the result is the original candidates in
\* index-distance order with their original scores, cut to the top k; for
\* EnhancedVectorStore._rerank_results and, for order and scores, for
\* OllamaRAGEngine._rerank_documents.
C18_RerankFailureKeepsCandidates ==
    /\ []StoreRerankFailureKeepsCandidates
    /\ [][OllamaRerankFailureKeepsDocuments]_vars

----------------------------------------------------------------------------
(* confidence *)

\* C19: the confidence of every response of ProfessionalRAGEngine.ask_question
\* and of OllamaRAGEngine.ask_question_async lies in [0, 1] (0..100 in
\* hundredths), whatever scores the vector store returned (distances
\* without reranking, combined scores with it) and however the cascade
\* ended.
C19_ConfidenceInUnitInterval ==
    /\ pc = "done" => response.confidence \in 0..100
    /\ ppc = "done" => pro.response.confidence \in 0..100

\* The score lists search_with_scores may return: distances of the store.
RagScoreLists == UNION {[1..n -> ProScoresRaw] : n \in 1..MaxK}

\* The distance from the question of a chunk that search_documents returned
\* with `score`: the score itself without reranking, and with reranking the
\* distance the combined score was computed from.
ProDistance(score, use_reranking) ==
    IF ~use_reranking THEN score
    ELSE CHOOSE d \in ProScoresRaw :
            \E c \in Chunks :
                LET idx == <<Embed(c.page_content, dimension)>>
                IN  /\ SearchResults(idx, <<c>>, "ohm", 1, FALSE, dimension,
                                     FALSE)[1].score = d
                    /\ SearchResults(idx, <<c>>, "ohm", 1, TRUE, dimension,
                                     FALSE)[1].score = score

\* The sum of the distances of an evidence set (of the average, for sets of
\* one size).
ProDistanceSum(results, use_reranking) ==
    SumSeq([i \in 1..Len(results) |->
               ProDistance(results[i].score, use_reranking)])

\* C20: for generated responses the confidence is monotonic in the evidence
\* distance: of two evidence sets of the same size, everything else equal,
\* the one with the strictly smaller average distance never gets the
\* strictly lower confidence; for ProfessionalRAGEngine.ask_question with
\* and without reranking, and for RAGEngine._calculate_confidence.
C20_ConfidenceMonotonic ==
    /\ (ppc = "done" /\ pro.llm_called /\ ~pro.llm_raised) =>
          LET rr == pro.engine.use_reranking
              evidence == SubjectFilter(pro.search.results, pro.subject_filter)
          IN  \A other \in (IF rr THEN ProResultsReranked ELSE ProResultsRaw) :
                  (/\ Len(other) = Len(pro.search.results)
                   /\ \A i \in 1..Len(other) :
                         other[i].doc = pro.search.results[i].doc
                   /\ ProDistanceSum(SubjectFilter(other, pro.subject_filter),
                                     rr)
                         < ProDistanceSum(evidence, rr))
                  => ProResponse(pro.engine, pro.question,
                                 pro.subject_filter,
                                 [kind |-> "ok", results |-> other],
                                 [kind |-> "ok", text |-> pro.response.answer]
                                ).confidence >= pro.response.confidence
    /\ \A s1, s2 \in RagScoreLists :
          (Len(s1) = Len(s2) /\ SumSeq(s1) < SumSeq(s2)) =>
              RagCalculateConfidence(Len(s1), s1)
                  >= RagCalculateConfidence(Len(s2), s2)

\* The confidence of the template response to an empty question without
\* evidence, a response the engine does give: if the template responses
\* carry one constant, it is this one.
TemplateConfidence ==
    CalculateConfidence(<<>>,
        GenerateTemplateResponse(<<>>, [bound |-> TRUE, parts |-> <<>>]))

\* C21: every response of OllamaRAGEngine that ends in the template fallback
\* (model_used = "template") carries the same confidence, whatever the
\* number of evidence items, their content and the question.
C21_TemplateConfidenceFixed ==
    (pc = "done" /\ response.model_used = "template") =>
        response.confidence = TemplateConfidence

\* The confidence ask_question_async gives a query that ends as the query
\* just answered did (the same model answered, as primary or as fallback
\* model, on the same evidence) when the provider's answer is `text`.
ConfidenceWithAnswer(text) ==
    LET resp == GenerateResponse(response.model_used,
                                 [kind |-> "ok", text |-> text])
    IN  CalculateConfidence(docs,
            GeneratedData(resp, response.model_used, response.fallback_used))

\* C22: the confidence of ask_question_async is a function of the strategy
\* that ended the query, the number of evidence items and their distances:
\* two queries that agree on these get the same confidence, whatever the
\* length of the generated answer and whatever was answered before.
C22_ConfidencePureFunction ==
    (pc = "done" /\ response.model_used \in GenerationModels) =>
        \A text \in Texts : ConfidenceWithAnswer(text) = response.confidence

----------------------------------------------------------------------------
(* create_vector_store: partial success *)

CreateHasReturned == wpc = "returned" /\ wloc.op = "create"

\* C23 as stated: create_vector_store returns True exactly when at least
\* one chunk was embedded, and the store then holds exactly the embedded
\* chunks; it returns False exactly when the input is empty or every chunk
\* failed to embed.
C23_TrueIffSomeChunkEmbedded ==
    CreateHasReturned =>
        /\ wloc.ret <=> EmbeddedChunks(wloc.input) # <<>>
        /\ wloc.ret => documents = EmbeddedChunks(wloc.input)

\* C23, amended: a chunk whose embedding fails is skipped and the loop goes
\* on.  The call returns True exactly when at least one chunk was embedded
\* and the index accepted the vectors, and the store then holds exactly the
\* embedded chunks, one vector each; it returns False when no chunk was
\* embedded, leaving the store empty, and when index.add refuses the
\* vectors, leaving the embedded chunks in the documents list and no vector
\* in the index.
C23_TrueIffChunksIndexed ==
    CreateHasReturned =>
        LET embedded == EmbeddedChunks(wloc.input)
            refused == \E n \in 1..Len(wloc.embeddings_list) :
                          IndexRefuses(wloc.embeddings_list[n])
        IN  /\ Len(wloc.embeddings_list) = Len(embedded)
            /\ wloc.ret <=> (embedded # <<>> /\ ~refused)
            /\ documents = embedded
            /\ wloc.ret =>
                  /\ Len(index) = Len(embedded)
                  /\ \A i \in 1..Len(index) :
                        index[i] = Embed(embedded[i].page_content, embed_dim)
            /\ ~wloc.ret => index = <<>>

\* A build that skipped its second chunk and kept the first.
C23_Witness ==
    /\ CreateHasReturned
    /\ wloc.ret
    /\ Len(wloc.input) = 2
    /\ wloc.input[1].embed_ok
    /\ ~wloc.input[2].embed_ok
    /\ Len(documents) = 1
    /\ Len(index) = 1

----------------------------------------------------------------------------
(* Claims about empty inputs and the legacy package *)

\* C24: empty inputs are normal results.  A search on a freshly constructed,
\* never-built store returns the empty list (search_documents of the
\* enhanced store, search_similar and search_with_scores of the legacy
\* one), and a build from an empty list of chunks returns False
\* (create_vector_store of either store).  A store is fresh when no
\* create, save, load or reset has touched it since its construction
\* (ncalls = 0 for the enhanced store, vector_store None for the legacy one).
C24_EmptyInputsAreNormalResults ==
    /\ (spc = "done" /\ ncalls = 0) => sloc.results = <<>>
    /\ (/\ legacy.op \in {"search_similar", "search_with_scores"}
        /\ legacy.was_none) => legacy.results = <<>>
    /\ (CreateHasReturned /\ wloc.input = <<>>) => ~wloc.ret
    /\ (legacy.op = "create_vector_store" /\ legacy.input = <<>>) => ~legacy.ret

\* A reranked search of a fresh enhanced store has returned: the index
\* answered with padding only and the result is the empty list.
C24_Witness ==
    /\ spc = "done"
    /\ ncalls = 0
    /\ sloc.use_reranking
    /\ sloc.hits # <<>>
    /\ \A p \in 1..Len(sloc.hits) : sloc.hits[p].id = -1
    /\ sloc.results = <<>>

\* C25: in the legacy RAGEngine.ask_question running with SimpleFallbackLLM
\* the keyword table is matched independently of retrieval: a question
\* that contains a registered trigger keyword receives the precomputed
\* answer whatever search_similar returned, no documents included.
C25_PrecomputedWhateverRetrieval ==
    (/\ legacy.op = "ask_question"
     /\ legacy.llm = "SimpleFallbackLLM"
     /\ GetQuickResponse(legacy.question) # "None") =>
        legacy.response.answer
            = Answer("canned", GetQuickResponse(legacy.question), <<>>)

\* C26: MetricsService.detect_subject returns the first subject, scanning
\* in the declared order, that has at least one keyword occurring as a
\* substring of the lowercased question, and None when no subject has one.
C26_FirstMatchingSubject ==
    LET declared ==
            <<"mathematics", "physics", "chemistry", "electronics", "biology",
              "geology", "astronomy", "psychology", "computer_science">>
        matching == {s \in 1..Len(declared) :
                        \E n \in 1..Len(subject_keywords[s].keywords) :
                            Contains(Lower(legacy.question),
                                     subject_keywords[s].keywords[n])}
    IN  /\ [s \in 1..Len(subject_keywords) |-> subject_keywords[s].subject]
               = declared
        /\ legacy.op = "detect_subject" =>
              /\ matching = {} => legacy.subject = "None"
              /\ matching # {} =>
                    \E s \in matching :
                        /\ \A t \in matching : s <= t
                        /\ legacy.subject = declared[s]

\* detect_subject has returned chemistry for a question in which a keyword
\* of chemistry ("ph") and one of biology ("photosynthèse") occur: the
\* earlier subject wins.
C26_Witness ==
    /\ legacy.op = "detect_subject"
    /\ Contains(Lower(legacy.question), <<"p", "h">>)
    /\ Contains(Lower(legacy.question),
                <<"p", "h", "o", "t", "o", "s", "y", "n", "t", "h", "è", "s", "e">>)
    /\ legacy.subject = "chemistry"

----------------------------------------------------------------------------
(* Claims about the strategy and the sources of ProfessionalRAGEngine *)

\* The call of ask_question that has returned met an exception: the search
\* raised, the subject filter raised, or the LLM raised.
ProRaised ==
    \/ pro.search.kind = "raises"
    \/ SubjectFilterRaises(pro.search.results, pro.subject_filter)
    \/ pro.llm_raised

\* The result set after the subject filter.
ProFiltered == SubjectFilter(pro.search.results, pro.subject_filter)

\* C27: ProfessionalRAGEngine.ask_question selects its strategy from two
\* facts only.  When an LLM is available and the result set after the
\* subject filter is non-empty, model_used is the configured model_type
\* and the sources are all the results; in every other case (no LLM, no
\* results, or an exception) model_used is "fallback" and the confidence
\* is min_confidence.
C27_StrategyFromLlmAndResults ==
    ppc = "done" =>
        IF ~ProRaised /\ pro.engine.llm_available /\ ProFiltered # <<>>
        THEN /\ pro.response.model_used = pro.engine.model_type
             /\ pro.response.sources
                    = [i \in 1..Len(ProFiltered) |-> ProFiltered[i].doc]
        ELSE /\ pro.response.model_used = "fallback"
             /\ pro.response.confidence = min_confidence

\* An engine with an LLM has answered with its model on the results a
\* subject filter left, fewer than the search returned.
C27_Witness ==
    /\ ppc = "done"
    /\ ~ProRaised
    /\ pro.engine.llm_available
    /\ pro.subject_filter # ""
    /\ ProFiltered # <<>>
    /\ Len(ProFiltered) < Len(pro.search.results)
    /\ pro.response.model_used = "auto"
    /\ Len(pro.response.sources) = Len(ProFiltered)

\* source_scores has one score per source, in the order of the sources.
ScoresAlignWithSources ==
    /\ Len(pro.response.source_scores) = Len(pro.response.sources)
    /\ ~ProRaised =>
          /\ Len(pro.response.sources) = Len(ProFiltered)
          /\ \A i \in 1..Len(ProFiltered) :
                /\ pro.response.sources[i] = ProFiltered[i].doc
                /\ pro.response.source_scores[i] = ProFiltered[i].score

\* C28 as stated: with a subject_filter, every document of the sources has
\* its metadata subject equal to the requested subject, and source_scores
\* has one score per source in the same order.
C28_SourcesHaveRequestedSubject ==
    (ppc = "done" /\ pro.subject_filter # "") =>
        /\ \A i \in 1..Len(pro.response.sources) :
              pro.response.sources[i].subject = pro.subject_filter
        /\ ScoresAlignWithSources

\* C28: with a subject_filter, every document of the sources has a metadata
\* subject equal to the requested subject up to the case of the letters,
\* the sources are exactly the results of that subject, and source_scores
\* has one score per source in the same order.
C28_SourcesMatchSubjectIgnoringCase ==
    (ppc = "done" /\ pro.subject_filter # "") =>
        /\ \A i \in 1..Len(pro.response.sources) :
              SubjectLower(pro.response.sources[i].subject)
                  = SubjectLower(pro.subject_filter)
        /\ ~ProRaised =>
              Len(pro.response.sources)
                  = Cardinality({i \in 1..Len(pro.search.results) :
                        SubjectLower(pro.search.results[i].doc.subject)
                            = SubjectLower(pro.subject_filter)})
        /\ ScoresAlignWithSources

\* A call with the filter "PHYSICS" has returned a source whose subject is
\* written "Physics", and has left out a result of another subject.
C28_Witness ==
    /\ ppc = "done"
    /\ pro.subject_filter = "PHYSICS"
    /\ pro.response.sources # <<>>
    /\ pro.response.sources[1].subject = "Physics"
    /\ Len(pro.response.sources) < Len(pro.search.results)
    /\ Len(pro.response.source_scores) = Len(pro.response.sources)

----------------------------------------------------------------------------
(* Claims about the connection flag of OllamaModelManager *)

\* C29: after any sequence of test_connection and update_config calls,
\* is_connected() equals the outcome of the most recent connection test:
\* False before any test, False after update_config changes base_url, and
\* False after a test_connection call that returned False, one that failed
\* with an exception after an earlier successful test included.
C29_ConnectedIsLastTestOutcome ==
    LET last_outcome == mcall.tested /\ ~mcall.url_changed /\ mcall.last_test
    IN  /\ manager.connection_tested = last_outcome
        /\ mcall.op = "get_system_status" =>
              mcall.ollama_connected = last_outcome

----------------------------------------------------------------------------
(* Claims about SimpleFallbackLLM *)

\* C30: SimpleFallbackLLM.__call__ returns, for a question that contains a
\* registered keyword, the canned answer of the first matching keyword,
\* the exact-match table scanned in its declared order before the
\* partial-match table in its declared order; for a question that contains
\* no registered keyword it returns the generic answer, built on the
\* context when the prompt carries one and general otherwise.  The keyword
\* branches of _generate_response are never reached.  (A keyword counts as
\* contained whatever the case of the question's letters; the prompt
\* carries a context when it is the prompt of ask_question around at
\* least one document.)
C30_CannedAnswerOfFirstKeyword ==
    legacy.op = "llm" =>
        LET question_lower == Lower(legacy.question)
            exact == FirstMatch(exact_matches, question_lower)
            partial == FirstMatch(precomputed_responses, question_lower)
            answer == legacy.response.answer
            carries_context ==
                legacy.prompt # legacy.question /\ legacy.input # <<>>
        IN  /\ exact # NoMatch =>
                  answer = Answer("canned", exact_matches[exact].response, <<>>)
            /\ (exact = NoMatch /\ partial # NoMatch) =>
                  answer = Answer("canned", precomputed_responses[partial].response, <<>>)
            /\ (exact = NoMatch /\ partial = NoMatch) =>
                  answer.kind = IF carries_context THEN "context" ELSE "general"
            /\ answer.kind # "branch"

=============================================================================
